---- MODULE Spec2Model ----
(***************************************************************************)
(* A model of the STEB.IO marketplace backend (src/backend/models.js,      *)
(* which holds server.js followed by models.js).                           *)
(*                                                                         *)
(* The server is a single Node.js process: a request handler runs to       *)
(* completion unless it awaits real I/O.  The only such awaits are the     *)
(* PBKDF2 calls of hashPassword (register) and verifyPassword (login), so  *)
(* every handler is one atomic action, except register and login, which    *)
(* are split at that await into a Begin and a Resume action.               *)
(*                                                                         *)
(* Encodings: a nullable value is a sequence of length 0 (null/undefined)  *)
(* or 1; money is an integer number of cents; a Date is a [y, m, d]        *)
(* record with JavaScript's 0-based month.                                 *)
(***************************************************************************)
EXTENDS Integers, Sequences, FiniteSets, Bags, TLC

VARIABLES
    users,      \* User._data
    sessions,   \* the sessions object: token -> user id
    stores,     \* Store._data
    products,   \* Product._data
    orders,     \* Order._data
    referrals,  \* AffiliateReferral._data
    nextId,     \* the idGenerator() counters, one per model class
    tokens,     \* number of session tokens randomToken(24) has produced
    inflight,   \* bag of register/login requests suspended at their PBKDF2 await
    now,        \* the wall clock: an index into Clock
    req,        \* the request the last step worked on
    res         \* the response sent by the last step

vars == <<users, sessions, stores, products, orders, referrals, nextId,
          tokens, inflight, now, req, res>>

\* The in-memory collections, i.e. everything but clock and request bookkeeping.
collections == <<users, sessions, stores, products, orders, referrals>>

----------------------------------------------------------------------------
\* Bounds of the model.

MaxUsers == 2
MaxTokens == 2
MaxInflight == 2
MaxOrders == 3
MaxStores == 2
MaxTime == 2
MaxBilled == 2
MaxProducts == 1

----------------------------------------------------------------------------
\* Input alphabets.

Emails == {"a@x", "b@x"}
Passwords == {"pw1", "pw2"}
RegPasswords == {"pw1"}
Codes == {"c1", "c2"}
Salts == {"s1"}
RefInputs == {"", "c1"}
NoRef == {""}

Null == <<>>
Some(v) == <<v>>

\* Array.prototype.find: the first element that passes the test, or undefined.
Find(seq, Test(_)) ==
    LET S == {i \in 1..Len(seq) : Test(seq[i])}
    IN  IF S = {} THEN Null
        ELSE Some(seq[CHOOSE i \in S : \A j \in S : i <= j])

\* Array.prototype.filter.
Filter(seq, Test(_)) == SelectSeq(seq, Test)

Range(seq) == {seq[i] : i \in 1..Len(seq)}

----------------------------------------------------------------------------
\* models.js helpers.

\* PBKDF2 is modelled as an injective function of (password, salt).
pbkdf2(password, salt) == <<password, salt>>

hashPassword(password, salt) == [salt |-> salt, hash |-> pbkdf2(password, salt)]

\* A verification that never compares the derived key.
verifyPasswordNoCompare(password, stored) == stored.salt \in Salts

verifyPassword(password, stored) == stored.hash = pbkdf2(password, stored.salt)

\* randomToken(24): 192 random bits.  A session token is taken to be fresh
\* (never produced before); the k-th token produced is named k.
randomToken24 == tokens + 1

User_findByEmail(email) == Find(users, LAMBDA u : u.email = email)

User_findById(id) == Find(users, LAMBDA u : u.id = id)

User_findByCode(code) == Find(users, LAMBDA u : u.referralCode = code)

Store_findById(id) == Find(stores, LAMBDA s : s.id = id)

\* A Product.findById that falls back to the first product.
Product_findByIdOrFirst(id) ==
    IF Find(products, LAMBDA p : p.id = id) # Null \/ products = <<>>
    THEN Find(products, LAMBDA p : p.id = id)
    ELSE Some(products[1])

Product_findById(id) == Find(products, LAMBDA p : p.id = id)

Order_findById(id) == Find(orders, LAMBDA o : o.id = id)

\* requireAuth: the authenticated user, or Null when the middleware answers 401.
\* A request without Authorization header carries token Null.
\* A requireAuth that takes a token missing from the session table for a
\* session of the first user.
requireAuthForged(token) ==
    IF token = Null THEN Null
    ELSE IF token[1] \notin DOMAIN sessions THEN User_findById(1)
    ELSE User_findById(sessions[token[1]])

requireAuth(token) ==
    IF token = Null THEN Null
    ELSE IF token[1] \notin DOMAIN sessions THEN Null
    ELSE User_findById(sessions[token[1]])

Unauthorized(op, token) ==
    [op |-> op, status |-> 401,
     error |-> IF token = Null THEN "Missing authorization header"
               ELSE IF token[1] \notin DOMAIN sessions THEN "Invalid or expired session"
               ELSE "User not found",
     data |-> Null]

Ok(op, data) == [op |-> op, status |-> 200, error |-> "", data |-> Some(data)]

Fail(op, status, error) == [op |-> op, status |-> status, error |-> error, data |-> Null]

\* No response yet: the handler is suspended at an await.
Suspended(op) == [op |-> op, status |-> 0, error |-> "", data |-> Null]

\* An AffiliateReferral.create that records nothing.
AffiliateReferral_create_dropped(refs, ids, referrerId, referredUserId) ==
    [refs |-> refs, ids |-> ids]

\* An AffiliateReferral.create that keeps one record per (referrer, referred).
AffiliateReferral_create_once(refs, ids, referrerId, referredUserId) ==
    IF \E i \in 1..Len(refs) : /\ refs[i].referrerId = referrerId
                                /\ refs[i].referredUserId = referredUserId
    THEN [refs |-> refs, ids |-> ids]
    ELSE [refs |-> Append(refs, [id |-> ids.AffiliateReferral,
                                 referrerId |-> referrerId,
                                 referredUserId |-> referredUserId]),
          ids |-> [ids EXCEPT !.AffiliateReferral = @ + 1]]

\* AffiliateReferral.create
AffiliateReferral_create(refs, ids, referrerId, referredUserId) ==
    [refs |-> Append(refs, [id |-> ids.AffiliateReferral,
                            referrerId |-> referrerId,
                            referredUserId |-> referredUserId]),
     ids |-> [ids EXCEPT !.AffiliateReferral = @ + 1]]

----------------------------------------------------------------------------
\* POST /api/auth/register

\* A uniqueness test of User.create that finds nobody.
User_create_existing_none(email) == Null

\* The uniqueness test of User.create: the stored user with this email.
User_create_existing(email) == User_findByEmail(email)

\* The synchronous first half: field validation, then User.create up to its
\* await of hashPassword.
RegisterBegin(email, password, ref) ==
    /\ BagCardinality(inflight) < MaxInflight
    /\ req' = [op |-> "register", email |-> email, password |-> password, ref |-> ref]
    /\ IF email = "" \/ password = ""
       THEN /\ res' = Fail("register", 400, "Email, password and name are required")
            /\ UNCHANGED inflight
       ELSE IF User_create_existing(email) # Null
       THEN /\ res' = Fail("register", 400, "User with this email already exists")
            /\ UNCHANGED inflight
       ELSE /\ \E salt \in Salts :
                 inflight' = inflight (+) SetToBag({[op |-> "register", email |-> email,
                                                    password |-> password, ref |-> ref,
                                                    salt |-> salt]})
            /\ res' = Suspended("register")
    /\ UNCHANGED <<users, sessions, stores, products, orders, referrals, nextId, tokens, now>>

\* User.create after the await: no second look at User._data.
User_create_insert(r, code) ==
    Append(users, [id |-> nextId.User, email |-> r.email,
                   passwordHash |-> hashPassword(r.password, r.salt),
                   referralCode |-> code])

\* The second half: insert the user, record the referral, open a session.
RegisterResume(r, code) ==
    /\ BagIn(r, inflight)
    /\ r.op = "register"
    /\ Len(users) < MaxUsers
    /\ tokens < MaxTokens
    /\ LET id == nextId.User
           us == User_create_insert(r, code)
           referrer == IF r.ref = "" THEN Null
                       ELSE Find(us, LAMBDA u : u.referralCode = r.ref)
           rc == IF referrer # Null
                 THEN AffiliateReferral_create(referrals, [nextId EXCEPT !.User = @ + 1],
                                               referrer[1].id, id)
                 ELSE [refs |-> referrals, ids |-> [nextId EXCEPT !.User = @ + 1]]
           token == randomToken24
       IN  /\ users' = us
           /\ referrals' = rc.refs
           /\ nextId' = rc.ids
           /\ tokens' = tokens + 1
           /\ sessions' = [t \in DOMAIN sessions \cup {token} |->
                              IF t = token THEN id ELSE sessions[t]]
           /\ req' = [op |-> "register", email |-> r.email, password |-> r.password,
                      ref |-> r.ref]
           /\ res' = Ok("register", [token |-> token, user |-> id])
    /\ inflight' = inflight (-) SetToBag({r})
    /\ UNCHANGED <<stores, products, orders, now>>

----------------------------------------------------------------------------
\* POST /api/auth/login

InvalidCredentials == Fail("login", 400, "Invalid email or password")

LoginBegin(email, password) ==
    /\ BagCardinality(inflight) < MaxInflight
    /\ req' = [op |-> "login", email |-> email, password |-> password]
    /\ IF email = "" \/ password = ""
       THEN /\ res' = Fail("login", 400, "Email and password are required")
            /\ UNCHANGED inflight
       ELSE IF User_findByEmail(email) = Null
       THEN /\ res' = InvalidCredentials
            /\ UNCHANGED inflight
       ELSE /\ inflight' = inflight (+) SetToBag({[op |-> "login", email |-> email,
                                                   password |-> password,
                                                   user |-> User_findByEmail(email)[1]]})
            /\ res' = Suspended("login")
    /\ UNCHANGED <<users, sessions, stores, products, orders, referrals, nextId, tokens, now>>

\* A login that drops the user's earlier sessions.
LoginSessionSingle(token, id) ==
    [t \in {u \in DOMAIN sessions : sessions[u] # id} \cup {token} |->
        IF t = token THEN id ELSE sessions[t]]

\* The session table after login's  sessions[token] = user.id.
LoginSession(token, id) ==
    [t \in DOMAIN sessions \cup {token} |-> IF t = token THEN id ELSE sessions[t]]

LoginResume(r) ==
    /\ BagIn(r, inflight)
    /\ r.op = "login"
    /\ req' = [op |-> "login", email |-> r.email, password |-> r.password]
    /\ LET ok == verifyPassword(r.password, r.user.passwordHash)
           token == randomToken24
       IN  IF ok
           THEN /\ tokens < MaxTokens
                /\ tokens' = tokens + 1
                /\ sessions' = LoginSession(token, r.user.id)
                /\ res' = Ok("login", [token |-> token, user |-> r.user.id])
           ELSE /\ res' = InvalidCredentials
                /\ UNCHANGED <<tokens, sessions>>
    /\ inflight' = inflight (-) SetToBag({r})
    /\ UNCHANGED <<users, stores, products, orders, referrals, nextId, now>>

----------------------------------------------------------------------------
\* GET /api/auth/me and POST /api/auth/logout

Me(token) ==
    /\ req' = [op |-> "me", token |-> token]
    /\ res' = IF requireAuth(token) = Null THEN Unauthorized("me", token)
              ELSE Ok("me", [user |-> requireAuth(token)[1].id])
    /\ UNCHANGED <<users, sessions, stores, products, orders, referrals, nextId,
                   tokens, inflight, now>>

\* A logout that closes every session.
LogoutSessionAll(token) == [t \in {} |-> 0]

\* delete sessions[token]
LogoutSession(token) == [t \in DOMAIN sessions \ {token} |-> sessions[t]]

Logout(token) ==
    /\ req' = [op |-> "logout", token |-> token]
    /\ IF requireAuth(token) = Null
       THEN /\ res' = Unauthorized("logout", token)
            /\ UNCHANGED sessions
       ELSE /\ sessions' = LogoutSession(token[1])
            /\ res' = Ok("logout", [success |-> TRUE])
    /\ UNCHANGED <<users, stores, products, orders, referrals, nextId, tokens,
                   inflight, now>>

----------------------------------------------------------------------------
\* The identity and session part of the server, from its start.

NoRequest == [op |-> "none"]
NoResponse == [op |-> "none", status |-> 0, error |-> "", data |-> Null]

InitIds == [User |-> 1, Store |-> 1, Product |-> 1, Order |-> 1, AffiliateReferral |-> 1]

InitAuth ==
    /\ users = <<>>
    /\ sessions = <<>>
    /\ stores = <<>>
    /\ products = <<>>
    /\ orders = <<>>
    /\ referrals = <<>>
    /\ nextId = InitIds
    /\ tokens = 0
    /\ inflight = EmptyBag
    /\ now = 1
    /\ req = NoRequest
    /\ res = NoResponse

TokenInputs == {Null} \cup {Some(t) : t \in 1..MaxTokens}

NextAuth ==
    \/ \E e \in Emails \cup {""}, p \in RegPasswords, r \in NoRef : RegisterBegin(e, p, r)
    \/ \E r \in BagToSet(inflight), c \in Codes : RegisterResume(r, c)
    \/ \E e \in Emails \cup {""}, p \in Passwords : LoginBegin(e, p)
    \/ \E r \in BagToSet(inflight) : LoginResume(r)
    \/ \E t \in TokenInputs : Me(t)
    \/ \E t \in TokenInputs : Logout(t)

SpecAuth == InitAuth /\ [][NextAuth]_vars

\* The registration part: registrations only, with and without a referral
\* code, from the empty state.
NextRegister ==
    \/ \E e \in Emails \cup {""}, p \in RegPasswords, r \in RefInputs \cup {"zz"} :
          RegisterBegin(e, p, r)
    \/ \E r \in BagToSet(inflight), c \in Codes : RegisterResume(r, c)

SpecRegister == InitAuth /\ [][NextRegister]_vars

----------------------------------------------------------------------------
\* IEEE-754 double arithmetic, as far as the commission needs it.  TLC's
\* integers are 32 bits wide and a double's significand is 53, so a natural
\* number is a little-endian sequence of limbs in base 2^15 (no high zero
\* limb); a positive double is m * 2^e with 2^52 <= m < 2^53.

Limb == 2^15

Limbs(n) == IF n = 0 THEN <<>> ELSE IF n < Limb THEN <<n>>
            ELSE IF n < Limb * Limb THEN <<n % Limb, n \div Limb>>
            ELSE <<n % Limb, (n \div Limb) % Limb, n \div (Limb * Limb)>>

RECURSIVE ToInt(_)
ToInt(a) == IF a = <<>> THEN 0 ELSE Head(a) + Limb * ToInt(Tail(a))

RECURSIVE Trim(_)
Trim(a) ==
    IF a = <<>> THEN <<>>
    ELSE IF a[Len(a)] # 0 THEN a
    ELSE Trim(SubSeq(a, 1, Len(a) - 1))

RECURSIVE AddCarry(_, _, _)
AddCarry(a, b, c) ==
    IF a = <<>> /\ b = <<>> THEN (IF c = 0 THEN <<>> ELSE <<c>>)
    ELSE LET x == IF a = <<>> THEN 0 ELSE Head(a)
             y == IF b = <<>> THEN 0 ELSE Head(b)
             t == x + y + c
         IN  <<t % Limb>> \o AddCarry(IF a = <<>> THEN <<>> ELSE Tail(a),
                                      IF b = <<>> THEN <<>> ELSE Tail(b), t \div Limb)

AddLimbs(a, b) == AddCarry(a, b, 0)

\* a * d + c for one limb d.
RECURSIVE MulDigit(_, _, _)
MulDigit(a, d, c) ==
    IF a = <<>> THEN (IF c = 0 THEN <<>> ELSE <<c>>)
    ELSE LET t == Head(a) * d + c
         IN  <<t % Limb>> \o MulDigit(Tail(a), d, t \div Limb)

RECURSIVE MulLimbs(_, _)
MulLimbs(a, b) ==
    IF b = <<>> THEN <<>>
    ELSE AddLimbs(MulDigit(a, Head(b), 0), <<0>> \o MulLimbs(a, Tail(b)))

\* floor(a / d) for one limb d > 0, from the top limb down; r is the running remainder.
RECURSIVE DivDigit(_, _, _)
DivDigit(a, d, r) ==
    IF a = <<>> THEN <<>>
    ELSE LET cur == r * Limb + a[Len(a)]
         IN  DivDigit(SubSeq(a, 1, Len(a) - 1), d, cur % d) \o <<cur \div d>>

RECURSIVE ModDigit(_, _, _)
ModDigit(a, d, r) ==
    IF a = <<>> THEN r
    ELSE ModDigit(SubSeq(a, 1, Len(a) - 1), d, (r * Limb + a[Len(a)]) % d)

RECURSIVE BitLenInt(_)
BitLenInt(n) == IF n = 0 THEN 0 ELSE 1 + BitLenInt(n \div 2)

BitLen(a) == IF a = <<>> THEN 0 ELSE 15 * (Len(a) - 1) + BitLenInt(a[Len(a)])

\* a * 2^k and floor(a / 2^k).
Shl(a, k) == IF a = <<>> THEN <<>>
             ELSE [i \in 1..(k \div 15) |-> 0] \o MulDigit(a, 2^(k % 15), 0)

Shr(a, k) ==
    IF k \div 15 >= Len(a) THEN <<>>
    ELSE Trim(DivDigit(SubSeq(a, (k \div 15) + 1, Len(a)), 2^(k % 15), 0))

\* Bit i (from 0) of a, and whether a mod 2^k is non-zero.
Bit(a, i) == IF i \div 15 >= Len(a) THEN 0
             ELSE (a[(i \div 15) + 1] \div 2^(i % 15)) % 2

LowBitsSet(a, k) ==
    \/ \E j \in 1..(k \div 15) : j <= Len(a) /\ a[j] # 0
    \/ (k \div 15) < Len(a) /\ a[(k \div 15) + 1] % 2^(k % 15) # 0

DoubleZero == [m |-> <<>>, e |-> 0]

\* Round n * 2^e (n without high zero limb) to the nearest double, ties to even.
RoundToDouble(n, e) ==
    LET L == BitLen(n)
    IN  IF L = 0 THEN DoubleZero
        ELSE IF L <= 53 THEN [m |-> Shl(n, 53 - L), e |-> e - (53 - L)]
        ELSE LET d == L - 53
                 q == Shr(n, d)
                 guard == Bit(n, d - 1)
                 sticky == LowBitsSet(n, d - 1)
                 up == guard = 1 /\ (sticky \/ Bit(q, 0) = 1)
                 q2 == IF up THEN AddLimbs(q, <<1>>) ELSE q
             IN  IF BitLen(q2) > 53
                 THEN [m |-> Shr(q2, 1), e |-> e + d + 1]
                 ELSE [m |-> q2, e |-> e + d]

\* The double nearest to a / b, for naturals a and 0 < b < 2^15 with a = 0 or
\* a / b >= 2^-15: the quotient to 75 fractional bits, with a sticky bit.
DivDouble(a, b) ==
    IF a = 0 THEN DoubleZero
    ELSE LET n == Shl(Limbs(a), 75)
             q == Trim(DivDigit(n, b, 0))
             sticky == IF ModDigit(n, b, 0) = 0 THEN 0 ELSE 1
         IN  RoundToDouble(AddLimbs(Shl(q, 1), Limbs(sticky)), 0 - 76)

\* x * y of two doubles.
MulDouble(x, y) ==
    IF x.m = <<>> \/ y.m = <<>> THEN DoubleZero
    ELSE RoundToDouble(Trim(MulLimbs(x.m, y.m)), x.e + y.e)

\* x + y of two doubles that are not negative.
AddDouble(x, y) ==
    IF x.m = <<>> THEN y
    ELSE IF y.m = <<>> THEN x
    ELSE LET e == IF x.e < y.e THEN x.e ELSE y.e
         IN  RoundToDouble(AddLimbs(Shl(x.m, x.e - e), Shl(y.m, y.e - e)), e)

\* Number.prototype.toFixed(2) of a double 0 <= x < 2^20, as cents: the integer
\* n with n / 100 - x closest to zero, the larger n on a tie (on x's exact value).
toFixed2(x) ==
    IF x.m = <<>> THEN 0
    ELSE LET n == MulDigit(x.m, 100, 0)
             f == 0 - x.e
         IN  ToInt(Shr(AddLimbs(n, Shl(<<1>>, f - 1)), f))

\* A price in cents is the JSON number cents/100: the double nearest to it.
PriceDouble(cents) == DivDouble(cents, 100)

\* (product.price * (product.affiliatePercent / 100)).toFixed(2), then
\* parseFloat: the commission in cents.  Division, multiplication and toFixed
\* round the magnitude and keep the sign, so a negative price or percent
\* gives the negated amount.
commissionAmount(price, percent) ==
    LET Abs(n) == IF n < 0 THEN 0 - n ELSE n
        amount == toFixed2(MulDouble(PriceDouble(Abs(price)),
                                     DivDouble(Abs(percent), 100)))
    IN  IF (price < 0) # (percent < 0) THEN 0 - amount ELSE amount

\* price * percent / 100 rounded half-up to cents, in exact arithmetic.
HalfUpCommission(price, percent) == (price * percent + 50) \div 100

----------------------------------------------------------------------------
\* POST /api/store and PUT /api/store/:id

StoreNames == {"Acme", "Bolt"}
Categories == {"tools"}

\* Store.create without the look for an existing store of the owner.
Store_create_unchecked(ownerId, name, category) ==
    [threw |-> FALSE,
     stores |-> Append(stores, [id |-> nextId.Store, ownerId |-> ownerId,
                                name |-> name, category |-> category])]

\* Store.create: throws when the owner already has a store, else pushes.
Store_create(ownerId, name, category) ==
    IF Find(stores, LAMBDA s : s.ownerId = ownerId) # Null
    THEN [threw |-> TRUE, stores |-> stores]
    ELSE [threw |-> FALSE,
          stores |-> Append(stores, [id |-> nextId.Store, ownerId |-> ownerId,
                                     name |-> name, category |-> category])]

CreateStore(token, name, category) ==
    /\ req' = [op |-> "createStore", token |-> token, name |-> name, category |-> category]
    /\ LET me == requireAuth(token)
       IN  IF me = Null
           THEN /\ res' = Unauthorized("createStore", token)
                /\ UNCHANGED <<stores, nextId>>
           ELSE IF name = "" \/ category = ""
           THEN /\ res' = Fail("createStore", 400, "Name and category are required")
                /\ UNCHANGED <<stores, nextId>>
           ELSE LET c == Store_create(me[1].id, name, category)
                IN  IF c.threw
                    THEN /\ res' = Fail("createStore", 400, "User already has a store")
                         /\ UNCHANGED <<stores, nextId>>
                    ELSE /\ Len(stores) < MaxStores
                         /\ stores' = c.stores
                         /\ nextId' = [nextId EXCEPT !.Store = @ + 1]
                         /\ res' = Ok("createStore", [store |-> nextId.Store])
    /\ UNCHANGED <<users, sessions, products, orders, referrals, tokens, inflight, now>>

\* Checks of updateStore that let any user update a store.
updateStoreRefusalAnyUser(me, store) ==
    IF store = Null THEN Some([status |-> 404, error |-> "Store not found"])
    ELSE Null

\* The checks of updateStore after authentication: the store exists and the
\* requester owns it.  Null when both pass.
updateStoreRefusal(me, store) ==
    IF store = Null THEN Some([status |-> 404, error |-> "Store not found"])
    ELSE IF store[1].ownerId # me.id
    THEN Some([status |-> 403, error |-> "You are not the owner of this store"])
    ELSE Null

UpdateStore(token, id, name, category) ==
    /\ req' = [op |-> "updateStore", token |-> token, id |-> id, name |-> name,
               category |-> category]
    /\ LET me == requireAuth(token)
           store == Store_findById(id)
       IN  IF me = Null
           THEN /\ res' = Unauthorized("updateStore", token)
                /\ UNCHANGED stores
           ELSE IF updateStoreRefusal(me[1], store) # Null
           THEN /\ res' = Fail("updateStore", updateStoreRefusal(me[1], store)[1].status,
                               updateStoreRefusal(me[1], store)[1].error)
                /\ UNCHANGED stores
           ELSE /\ stores' = [i \in 1..Len(stores) |->
                                IF stores[i].id = id
                                THEN [stores[i] EXCEPT
                                        !.name = IF name = "" THEN @ ELSE name,
                                        !.category = IF category = "" THEN @ ELSE category]
                                ELSE stores[i]]
                /\ res' = Ok("updateStore", [store |-> id])
    /\ UNCHANGED <<users, sessions, products, orders, referrals, nextId, tokens,
                   inflight, now>>

----------------------------------------------------------------------------
\* POST /api/products
\*
\* A request body is a record of title, price, type, billingInterval,
\* trialDays, deliverables and affiliatePercent.  An absent string is "", an
\* absent value of another kind is Null; money is in cents.  The title and
\* the description are stored as given and read by nothing modelled here.

\* JavaScript truthiness of an optional number: absent and 0 are falsy.
Truthy(n) == n # Null /\ n[1] # 0

\* Product fields of a createProduct that keeps billingInterval and
\* trialDays whatever the type is.
productFieldsAnyType(body) ==
    [price |-> body.price[1],
     type |-> body.type,
     billingInterval |-> IF body.billingInterval # Null THEN body.billingInterval
                         ELSE Some("monthly"),
     trialDays |-> IF Truthy(body.trialDays) THEN body.trialDays ELSE Null,
     deliverables |-> IF body.deliverables # Null THEN body.deliverables[1] ELSE <<>>,
     affiliatePercent |-> IF Truthy(body.affiliatePercent) THEN body.affiliatePercent[1]
                          ELSE 5]

\* The fields the handler passes to Product.create.
productFields(body) ==
    [price |-> body.price[1],
     type |-> body.type,
     billingInterval |-> IF body.type = "subscription"
                         THEN (IF body.billingInterval # Null THEN body.billingInterval
                               ELSE Some("monthly"))
                         ELSE Null,
     trialDays |-> IF body.type = "subscription"
                   THEN (IF Truthy(body.trialDays) THEN body.trialDays ELSE Null)
                   ELSE Null,
     deliverables |-> IF body.deliverables # Null THEN body.deliverables[1] ELSE <<>>,
     affiliatePercent |-> IF Truthy(body.affiliatePercent) THEN body.affiliatePercent[1]
                          ELSE 5]

\* Product.create: the store exists (the handler has just found it), so it
\* takes the next id and pushes.
Product_create(storeId, fields) ==
    [id |-> nextId.Product, storeId |-> storeId, price |-> fields.price,
     type |-> fields.type, billingInterval |-> fields.billingInterval,
     trialDays |-> fields.trialDays, deliverables |-> fields.deliverables,
     affiliatePercent |-> fields.affiliatePercent]

\* Checks of createProduct that let any user add products to a store.
createProductRefusalAnyUser(me, store, body) ==
    IF store = Null
    THEN Some([status |-> 404, error |-> "Store not found"])
    ELSE IF body.title = "" \/ ~Truthy(body.price) \/ body.type = ""
    THEN Some([status |-> 400, error |-> "Title, price and type are required"])
    ELSE Null

\* The checks of createProduct after authentication: the store exists, the
\* requester owns it, and title, price and type are truthy.  Null when all
\* pass.
createProductRefusal(me, store, body) ==
    IF store = Null
    THEN Some([status |-> 404, error |-> "Store not found"])
    ELSE IF store[1].ownerId # me.id
    THEN Some([status |-> 403, error |-> "You do not own this store"])
    ELSE IF body.title = "" \/ ~Truthy(body.price) \/ body.type = ""
    THEN Some([status |-> 400, error |-> "Title, price and type are required"])
    ELSE Null

CreateProduct(token, storeId, body) ==
    /\ req' = [op |-> "createProduct", token |-> token, storeId |-> storeId,
               body |-> body]
    /\ LET me == requireAuth(token)
           store == Store_findById(storeId)
       IN  IF me = Null
           THEN /\ res' = Unauthorized("createProduct", token)
                /\ UNCHANGED <<products, nextId>>
           ELSE IF createProductRefusal(me[1], store, body) # Null
           THEN /\ res' = Fail("createProduct",
                               createProductRefusal(me[1], store, body)[1].status,
                               createProductRefusal(me[1], store, body)[1].error)
                /\ UNCHANGED <<products, nextId>>
           ELSE /\ Len(products) < MaxProducts
                /\ products' = Append(products,
                                      Product_create(store[1].id, productFields(body)))
                /\ nextId' = [nextId EXCEPT !.Product = @ + 1]
                /\ res' = Ok("createProduct", [product |-> nextId.Product])
    /\ UNCHANGED <<users, sessions, stores, orders, referrals, tokens, inflight, now>>

\* Product.update as if a product carried its price into the orders made of it.
Product_update_linked(productId, price) ==
    /\ Product_findById(productId) # Null
    /\ req' = [op |-> "Product.update", productId |-> productId, price |-> price]
    /\ res' = NoResponse
    /\ products' = [i \in 1..Len(products) |->
                      IF products[i].id = productId
                      THEN [products[i] EXCEPT !.price = price]
                      ELSE products[i]]
    /\ orders' = [i \in 1..Len(orders) |->
                    IF orders[i].productId = productId
                    THEN [orders[i] EXCEPT !.price = price]
                    ELSE orders[i]]
    /\ UNCHANGED <<users, sessions, stores, referrals, nextId, tokens, inflight, now>>

\* Product.update({price}): Object.assign on the stored product.  No route
\* calls it; it is a call on the model, so there is no response.
Product_update(productId, price) ==
    /\ Product_findById(productId) # Null
    /\ req' = [op |-> "Product.update", productId |-> productId, price |-> price]
    /\ res' = NoResponse
    /\ products' = [i \in 1..Len(products) |->
                      IF products[i].id = productId
                      THEN [products[i] EXCEPT !.price = price]
                      ELSE products[i]]
    /\ UNCHANGED <<users, sessions, stores, orders, referrals, nextId, tokens,
                   inflight, now>>

----------------------------------------------------------------------------
\* Dates.  The k-th instant of the clock is the last day of the k-th month
\* counted from January 2024; the time of day plays no part.

IsLeap(y) == (y % 4 = 0 /\ y % 100 # 0) \/ y % 400 = 0

DaysInMonth(y, m) ==
    IF m = 1 THEN (IF IsLeap(y) THEN 29 ELSE 28)
    ELSE IF m \in {3, 5, 8, 10} THEN 30 ELSE 31

\* MakeDay/MakeDate of ECMAScript for 0 <= m <= 12 and 1 <= d <= 31: a month
\* past December moves into the next year, a day past the month's end moves
\* into the next month.
MakeDate(y, m, d) ==
    LET y1 == IF m > 11 THEN y + 1 ELSE y
        m1 == IF m > 11 THEN m - 12 ELSE m
        dim == DaysInMonth(y1, m1)
    IN  IF d <= dim THEN [y |-> y1, m |-> m1, d |-> d]
        ELSE IF m1 = 11 THEN [y |-> y1 + 1, m |-> 0, d |-> d - dim]
        ELSE [y |-> y1, m |-> m1 + 1, d |-> d - dim]

ClockDate(k) ==
    LET y == 2024 + ((k - 1) \div 12)
        m == (k - 1) % 12
    IN  [y |-> y, m |-> m, d |-> DaysInMonth(y, m)]

\* A nextBillingAt that bills a product with a trial at the checkout itself.
nextBillingAtTrial(product, date) ==
    IF product.type # "subscription" THEN Null
    ELSE IF product.trialDays # Null THEN Some(date)
    ELSE IF product.billingInterval = Some("monthly")
    THEN Some(MakeDate(date.y, date.m + 1, date.d))
    ELSE IF product.billingInterval = Some("yearly")
    THEN Some(MakeDate(date.y + 1, date.m, date.d))
    ELSE Some(date)

\* A nextBillingAt that clamps a day past the month's end to the month's last
\* day instead of rolling over.
nextBillingAtClamped(product, date) ==
    LET Clamp(y, m) == [y |-> IF m > 11 THEN y + 1 ELSE y,
                        m |-> m % 12,
                        d |-> IF date.d <= DaysInMonth(IF m > 11 THEN y + 1 ELSE y, m % 12)
                              THEN date.d
                              ELSE DaysInMonth(IF m > 11 THEN y + 1 ELSE y, m % 12)]
    IN  IF product.type # "subscription" THEN Null
        ELSE IF product.billingInterval = Some("monthly")
        THEN Some(Clamp(date.y, date.m + 1))
        ELSE IF product.billingInterval = Some("yearly")
        THEN Some(Clamp(date.y + 1, date.m))
        ELSE Some(date)

\* nextBillingAt of checkout: setMonth(getMonth() + 1) or
\* setFullYear(getFullYear() + 1) on a copy of now; any other interval
\* leaves the copy as it is.
nextBillingAt(product, date) ==
    IF product.type # "subscription" THEN Null
    ELSE IF product.billingInterval = Some("monthly")
    THEN Some(MakeDate(date.y, date.m + 1, date.d))
    ELSE IF product.billingInterval = Some("yearly")
    THEN Some(MakeDate(date.y + 1, date.m, date.d))
    ELSE Some(date)

Tick ==
    /\ now < MaxTime
    /\ now' = now + 1
    /\ UNCHANGED <<users, sessions, stores, products, orders, referrals, nextId,
                   tokens, inflight, req, res>>

----------------------------------------------------------------------------
\* POST /api/checkout

\* A deliverable spec {type, details}: hasDetails says whether details is an
\* object, keysIsArray whether details.keys is an array, keys is that array.
KeySpec(keys) ==
    [type |-> "license_keys", hasDetails |-> TRUE, keysIsArray |-> TRUE, keys |-> keys]

OtherSpec(type) ==
    [type |-> type, hasDetails |-> TRUE, keysIsArray |-> FALSE, keys |-> <<>>]

\* A shift that reads the first key and leaves it in the pool.
shiftPeek(keys) ==
    [key |-> IF keys = <<>> THEN Null ELSE Some(Head(keys)),
     keys |-> keys]

\* Array.prototype.shift: the first element (undefined on an empty array) and
\* the array without it.
shift(keys) ==
    [key |-> IF keys = <<>> THEN Null ELSE Some(Head(keys)),
     keys |-> IF keys = <<>> THEN <<>> ELSE Tail(keys)]

\* product.deliverables.map(...) from spec i on: the specs as they are left
\* behind, the order's deliverables, and whether reading d.details.keys threw.
RECURSIVE mapDeliverables(_, _)
mapDeliverables(ds, i) ==
    IF i > Len(ds) THEN [specs |-> ds, out |-> <<>>, threw |-> FALSE]
    ELSE LET d == ds[i]
         IN  IF d.type = "license_keys" /\ ~d.hasDetails
             THEN [specs |-> ds, out |-> <<>>, threw |-> TRUE]
             ELSE IF d.type = "license_keys" /\ d.keysIsArray
             THEN LET sh == shift(d.keys)
                      rest == mapDeliverables([ds EXCEPT ![i].keys = sh.keys], i + 1)
                  IN  [specs |-> rest.specs,
                       out |-> <<[type |-> "license_key", key |-> sh.key]>> \o rest.out,
                       threw |-> rest.threw]
             ELSE LET rest == mapDeliverables(ds, i + 1)
                  IN  [specs |-> rest.specs, out |-> <<d>> \o rest.out,
                       threw |-> rest.threw]

\* A checkout attribution that lets a buyer refer themself.
checkoutReferrerSelf(me, referralCode) ==
    IF referralCode = "" THEN Null
    ELSE LET referrer == User_findByCode(referralCode)
         IN  IF referrer # Null THEN Some(referrer[1].id) ELSE Null

\* The referrer a checkout attributes to: the first user holding the code,
\* unless there is no code, no such user, or it is the buyer.
checkoutReferrer(me, referralCode) ==
    IF referralCode = "" THEN Null
    ELSE LET referrer == User_findByCode(referralCode)
         IN  IF referrer # Null /\ referrer[1].id # me.id THEN Some(referrer[1].id)
             ELSE Null

\* Order.create
Order_create(userId, product, nextBilling, deliverables, referrerId, commission) ==
    [id |-> nextId.Order, userId |-> userId, productId |-> product.id,
     price |-> product.price, status |-> "active", nextBillingAt |-> nextBilling,
     endedAt |-> Null, deliverables |-> deliverables,
     affiliateReferrerId |-> referrerId, affiliateCommission |-> commission]

Checkout(token, productId, referralCode) ==
    /\ req' = [op |-> "checkout", token |-> token, productId |-> productId,
               referralCode |-> referralCode]
    /\ LET me == requireAuth(token)
           product == Product_findById(productId)
       IN  IF me = Null
           THEN /\ res' = Unauthorized("checkout", token)
                /\ UNCHANGED <<products, orders, referrals, nextId>>
           ELSE IF product = Null
           THEN /\ res' = Fail("checkout", 404, "Product not found")
                /\ UNCHANGED <<products, orders, referrals, nextId>>
           ELSE LET p == product[1]
                    referrerId == checkoutReferrer(me[1], referralCode)
                    commission == IF referrerId = Null THEN 0
                                  ELSE commissionAmount(p.price, p.affiliatePercent)
                    rc == IF referrerId = Null THEN [refs |-> referrals, ids |-> nextId]
                          ELSE AffiliateReferral_create(referrals, nextId,
                                                        referrerId[1], me[1].id)
                    md == mapDeliverables(p.deliverables, 1)
                    order == Order_create(me[1].id, p, nextBillingAt(p, ClockDate(now)),
                                          md.out, referrerId, commission)
                IN  /\ Len(orders) < MaxOrders
                    /\ referrals' = rc.refs
                    /\ products' = [i \in 1..Len(products) |->
                                      IF products[i].id = p.id
                                      THEN [products[i] EXCEPT !.deliverables = md.specs]
                                      ELSE products[i]]
                    /\ IF md.threw
                       THEN /\ res' = Fail("checkout", 500, "TypeError")
                            /\ nextId' = rc.ids
                            /\ UNCHANGED orders
                       ELSE /\ orders' = Append(orders, order)
                            /\ nextId' = [rc.ids EXCEPT !.Order = @ + 1]
                            /\ res' = Ok("checkout", [order |-> order.id])
    /\ UNCHANGED <<users, sessions, stores, tokens, inflight, now>>

----------------------------------------------------------------------------
\* POST /api/orders/:id/cancel

\* order.update of a cancel that flips a cancelled order back to active.
cancelUpdateToggle(order, date) ==
    [order EXCEPT !.status = IF @ = "cancelled" THEN "active" ELSE "cancelled",
                  !.endedAt = Some(date), !.nextBillingAt = Null]

\* An order.update of a cancel that also takes the deliverables back.
cancelUpdateRevoke(order, date) ==
    [order EXCEPT !.status = "cancelled", !.endedAt = Some(date), !.nextBillingAt = Null,
                  !.deliverables = <<>>]

\* An order.update of a cancel that leaves the next billing date in place.
cancelUpdateKeepBilling(order, date) ==
    [order EXCEPT !.status = "cancelled", !.endedAt = Some(date)]

\* order.update({status: 'cancelled', endedAt: new Date(), nextBillingAt: null})
cancelUpdate(order, date) ==
    [order EXCEPT !.status = "cancelled", !.endedAt = Some(date), !.nextBillingAt = Null]

\* Checks of cancel that let the buyer cancel an order of any product.
cancelRefusalAnyProduct(me, order) ==
    IF order = Null \/ (order # Null /\ order[1].userId # me.id)
    THEN Some([status |-> 404, error |-> "Order not found"])
    ELSE Null

\* Checks of cancel that let any user cancel an existing order.
cancelRefusalAnyUser(me, order) ==
    IF order = Null
    THEN Some([status |-> 404, error |-> "Order not found"])
    ELSE IF Product_findById(order[1].productId)[1].type # "subscription"
    THEN Some([status |-> 400, error |-> "Only subscriptions can be cancelled"])
    ELSE Null

\* The checks of cancel after authentication: the order must exist and be the
\* requester's, and its product must be a subscription.  Null when both pass.
cancelRefusal(me, order) ==
    IF order = Null \/ (order # Null /\ order[1].userId # me.id)
    THEN Some([status |-> 404, error |-> "Order not found"])
    ELSE IF Product_findById(order[1].productId)[1].type # "subscription"
    THEN Some([status |-> 400, error |-> "Only subscriptions can be cancelled"])
    ELSE Null

Cancel(token, orderId) ==
    /\ req' = [op |-> "cancel", token |-> token, orderId |-> orderId]
    /\ LET me == requireAuth(token)
           order == Order_findById(orderId)
       IN  IF me = Null
           THEN /\ res' = Unauthorized("cancel", token)
                /\ UNCHANGED orders
           ELSE IF cancelRefusal(me[1], order) # Null
           THEN /\ res' = Fail("cancel", cancelRefusal(me[1], order)[1].status,
                               cancelRefusal(me[1], order)[1].error)
                /\ UNCHANGED orders
           ELSE /\ orders' = [i \in 1..Len(orders) |->
                                IF orders[i].id = orderId
                                THEN cancelUpdate(orders[i], ClockDate(now))
                                ELSE orders[i]]
                /\ res' = Ok("cancel", [order |-> orderId])
    /\ UNCHANGED <<users, sessions, stores, products, referrals, nextId, tokens,
                   inflight, now>>

----------------------------------------------------------------------------
\* GET /api/orders

\* An Order.findByUser that returns the orders of every buyer.
Order_findByUserAll(userId) == orders

\* Order.findByUser
Order_findByUser(userId) == Filter(orders, LAMBDA o : o.userId = userId)

\* orders.map((o) => ({...o, product: Product.findById(o.productId)})): a
\* copy of each order with its product beside it.
detailed(os) ==
    [i \in 1..Len(os) |-> [order |-> os[i], product |-> Product_findById(os[i].productId)]]

ListOrders(token) ==
    /\ req' = [op |-> "listOrders", token |-> token]
    /\ LET me == requireAuth(token)
       IN  res' = IF me = Null THEN Unauthorized("listOrders", token)
                  ELSE Ok("listOrders", [orders |-> detailed(Order_findByUser(me[1].id))])
    /\ UNCHANGED <<users, sessions, stores, products, orders, referrals, nextId,
                   tokens, inflight, now>>

----------------------------------------------------------------------------
\* GET /api/affiliates/stats

\* A selection of the earning orders that leaves the cancelled ones out.
statsOrdersActive(me) ==
    Filter(orders, LAMBDA o : o.affiliateReferrerId = Some(me.id) /\ o.status = "active")

\* Order.findAll().filter(o => o.affiliateReferrerId === req.currentUser.id)
statsOrders(me) == Filter(orders, LAMBDA o : o.affiliateReferrerId = Some(me.id))

\* orders.reduce((sum, o) => sum + o.affiliateCommission, 0): a left fold in
\* double arithmetic; an order's commission is the double nearest to its
\* amount in cents / 100.  The commissions summed here are not negative.
RECURSIVE totalEarned(_, _)
totalEarned(os, sum) ==
    IF os = <<>> THEN sum
    ELSE totalEarned(Tail(os), AddDouble(sum, PriceDouble(Head(os).affiliateCommission)))

\* AffiliateReferral.findByReferrer
AffiliateReferral_findByReferrer(referrerId) ==
    Filter(referrals, LAMBDA r : r.referrerId = referrerId)

\* The earnings are answered in cents.
Stats(token) ==
    /\ req' = [op |-> "stats", token |-> token]
    /\ LET me == requireAuth(token)
       IN  res' = IF me = Null THEN Unauthorized("stats", token)
                  ELSE Ok("stats",
                          [referrals |-> Len(AffiliateReferral_findByReferrer(me[1].id)),
                           earnings |-> toFixed2(totalEarned(statsOrders(me[1]),
                                                             DoubleZero))])
    /\ UNCHANGED <<users, sessions, stores, products, orders, referrals, nextId,
                   tokens, inflight, now>>

----------------------------------------------------------------------------
\* The store part: two registered users, each with an open session.

TwoUsers ==
    <<[id |-> 1, email |-> "a@x", passwordHash |-> hashPassword("pw1", "s1"),
       referralCode |-> "c1"],
      [id |-> 2, email |-> "b@x", passwordHash |-> hashPassword("pw1", "s1"),
       referralCode |-> "c2"]>>

TwoSessions == [t \in {1, 2} |-> t]

InitStore ==
    /\ users = TwoUsers
    /\ sessions = TwoSessions
    /\ stores = <<>>
    /\ products = <<>>
    /\ orders = <<>>
    /\ referrals = <<>>
    /\ nextId = [InitIds EXCEPT !.User = 3]
    /\ tokens = 2
    /\ inflight = EmptyBag
    /\ now = 1
    /\ req = NoRequest
    /\ res = NoResponse

NextStore ==
    \/ \E t \in TokenInputs, n \in StoreNames \cup {""}, c \in Categories \cup {""} :
          CreateStore(t, n, c)
    \/ \E t \in TokenInputs, i \in 1..MaxStores, n \in StoreNames \cup {""},
          c \in Categories \cup {""} : UpdateStore(t, i, n, c)
    \/ \E t \in TokenInputs : Logout(t)

SpecStore == InitStore /\ [][NextStore]_vars

----------------------------------------------------------------------------
\* The order part: user 1 sells a monthly subscription with a pool of two
\* license keys and a one-time product with two pools and a file.

Catalog ==
    <<[id |-> 1, storeId |-> 1, price |-> 999, type |-> "subscription",
       billingInterval |-> Some("monthly"), trialDays |-> Null,
       deliverables |-> <<KeySpec(<<"K1", "K2">>)>>, affiliatePercent |-> 5],
      [id |-> 2, storeId |-> 1, price |-> 30, type |-> "one_time",
       billingInterval |-> Null, trialDays |-> Null,
       deliverables |-> <<KeySpec(<<"A1", "A2">>), OtherSpec("file"), KeySpec(<<"B1">>)>>,
       affiliatePercent |-> 5]>>

InitShop ==
    /\ users = TwoUsers
    /\ sessions = TwoSessions
    /\ stores = <<[id |-> 1, ownerId |-> 1, name |-> "Acme", category |-> "tools"]>>
    /\ products = Catalog
    /\ orders = <<>>
    /\ referrals = <<>>
    /\ nextId = [InitIds EXCEPT !.User = 3, !.Store = 2, !.Product = 3]
    /\ tokens = 2
    /\ inflight = EmptyBag
    /\ now = 1
    /\ req = NoRequest
    /\ res = NoResponse

ProductIds == {1, 2, 3}

\* The bearer tokens of the two open sessions.
OpenTokens == {Some(1), Some(2)}

NextShop ==
    \/ \E t \in OpenTokens, p \in ProductIds : Checkout(t, p, "")
    \/ \E t \in OpenTokens, o \in 1..MaxOrders : Cancel(t, o)
    \/ Tick

SpecShop == InitShop /\ [][NextShop]_vars

----------------------------------------------------------------------------
\* The commission part: one product whose price and affiliate percent range
\* over a bounded set, bought with and without referral codes.

Prices == {15, 30, 835, 999, 1000}
Percents == {5, 10, 50, 100}

InitCommission ==
    /\ users = TwoUsers
    /\ sessions = TwoSessions
    /\ stores = <<[id |-> 1, ownerId |-> 1, name |-> "Acme", category |-> "tools"]>>
    /\ \E price \in Prices, percent \in Percents :
          products = <<[id |-> 1, storeId |-> 1, price |-> price, type |-> "one_time",
                        billingInterval |-> Null, trialDays |-> Null,
                        deliverables |-> <<>>, affiliatePercent |-> percent]>>
    /\ orders = <<>>
    /\ referrals = <<>>
    /\ nextId = [InitIds EXCEPT !.User = 3, !.Store = 2, !.Product = 2]
    /\ tokens = 2
    /\ inflight = EmptyBag
    /\ now = 1
    /\ req = NoRequest
    /\ res = NoResponse

NextCommission ==
    \E t \in OpenTokens, c \in Codes \cup {"", "zz"} : Checkout(t, 1, c)

SpecCommission == InitCommission /\ [][NextCommission]_vars

----------------------------------------------------------------------------
\* The billing part: user 1 sells a monthly subscription with a pool of two
\* license keys, a yearly subscription and a one-time file; user 2 buys, with
\* and without the referral code of user 1, and both users send cancels.

BillingCatalog ==
    <<[id |-> 1, storeId |-> 1, price |-> 999, type |-> "subscription",
       billingInterval |-> Some("monthly"), trialDays |-> Null,
       deliverables |-> <<KeySpec(<<"K1", "K2">>)>>, affiliatePercent |-> 10],
      [id |-> 2, storeId |-> 1, price |-> 1000, type |-> "subscription",
       billingInterval |-> Some("yearly"), trialDays |-> Null,
       deliverables |-> <<>>, affiliatePercent |-> 5],
      [id |-> 3, storeId |-> 1, price |-> 30, type |-> "one_time",
       billingInterval |-> Null, trialDays |-> Null,
       deliverables |-> <<OtherSpec("file")>>, affiliatePercent |-> 5]>>

InitBilling ==
    /\ users = TwoUsers
    /\ sessions = TwoSessions
    /\ stores = <<[id |-> 1, ownerId |-> 1, name |-> "Acme", category |-> "tools"]>>
    /\ products = BillingCatalog
    /\ orders = <<>>
    /\ referrals = <<>>
    /\ nextId = [InitIds EXCEPT !.User = 3, !.Store = 2, !.Product = 4]
    /\ tokens = 2
    /\ inflight = EmptyBag
    /\ now = 1
    /\ req = NoRequest
    /\ res = NoResponse

NextBilling ==
    \/ /\ Len(orders) < MaxBilled
       /\ \E p \in {1, 2, 3}, c \in RefInputs : Checkout(Some(2), p, c)
    \/ \E t \in OpenTokens, o \in 1..MaxOrders : Cancel(t, o)
    \/ Tick

SpecBilling == InitBilling /\ [][NextBilling]_vars

----------------------------------------------------------------------------
\* The affiliate part: both users buy the two subscriptions of the billing
\* catalog, and ask for a product that does not exist, with each other's
\* referral code, their own, or none, cancel them and ask for their
\* statistics.

NextStats ==
    \/ /\ Len(orders) < MaxBilled
       /\ \E t \in OpenTokens, p \in {1, 2, 4}, c \in Codes \cup {""} : Checkout(t, p, c)
    \/ \E t \in OpenTokens, o \in 1..MaxBilled : Cancel(t, o)
    \/ \E t \in OpenTokens : Stats(t)

SpecStats == InitBilling /\ [][NextStats]_vars

----------------------------------------------------------------------------
\* The trial part: a monthly and a yearly subscription, each offered with
\* and without a trial, bought by both users at one instant, which is any
\* instant of the clock.

TrialCatalog ==
    <<[id |-> 1, storeId |-> 1, price |-> 999, type |-> "subscription",
       billingInterval |-> Some("monthly"), trialDays |-> Null,
       deliverables |-> <<>>, affiliatePercent |-> 5],
      [id |-> 2, storeId |-> 1, price |-> 999, type |-> "subscription",
       billingInterval |-> Some("monthly"), trialDays |-> Some(7),
       deliverables |-> <<>>, affiliatePercent |-> 5],
      [id |-> 3, storeId |-> 1, price |-> 999, type |-> "subscription",
       billingInterval |-> Some("yearly"), trialDays |-> Null,
       deliverables |-> <<>>, affiliatePercent |-> 5],
      [id |-> 4, storeId |-> 1, price |-> 999, type |-> "subscription",
       billingInterval |-> Some("yearly"), trialDays |-> Some(14),
       deliverables |-> <<>>, affiliatePercent |-> 5]>>

InitTrial ==
    /\ users = TwoUsers
    /\ sessions = TwoSessions
    /\ stores = <<[id |-> 1, ownerId |-> 1, name |-> "Acme", category |-> "tools"]>>
    /\ products = TrialCatalog
    /\ orders = <<>>
    /\ referrals = <<>>
    /\ nextId = [InitIds EXCEPT !.User = 3, !.Store = 2, !.Product = 5]
    /\ tokens = 2
    /\ inflight = EmptyBag
    /\ now \in 1..MaxTime
    /\ req = NoRequest
    /\ res = NoResponse

NextTrial ==
    \/ /\ Len(orders) < MaxBilled
       /\ \E t \in OpenTokens, p \in 1..4 : Checkout(t, p, "")
    \/ \E o \in 1..MaxBilled : Cancel(Some(2), o)

SpecTrial == InitTrial /\ [][NextTrial]_vars

----------------------------------------------------------------------------
\* The price part: the billing catalog, whose prices change between the
\* checkouts and cancels of user 2.

UpdatePrices == {30, 1500}

NextPrice ==
    \/ /\ Len(orders) < MaxBilled
       /\ \E p \in {1, 3}, c \in RefInputs : Checkout(Some(2), p, c)
    \/ \E o \in 1..MaxBilled : Cancel(Some(2), o)
    \/ \E p \in {1, 3}, price \in UpdatePrices : Product_update(p, price)

SpecPrice == InitBilling /\ [][NextPrice]_vars

----------------------------------------------------------------------------
\* The product part: user 1 owns store 1 and creates products from request
\* bodies of every type, interval and trial length; user 2 buys them and
\* sends cancels.

TypeInputs == {"one_time", "subscription", "rental"}
IntervalInputs == {Null, Some("monthly"), Some("yearly"), Some("weekly")}
TrialInputs == {Null, Some(0), Some(7)}

DefaultBody ==
    [title |-> "Widget", price |-> Some(30), type |-> "one_time",
     billingInterval |-> Null, trialDays |-> Null, deliverables |-> Null,
     affiliatePercent |-> Null]

ProductBodies ==
    {[DefaultBody EXCEPT !.type = ty, !.billingInterval = bi, !.trialDays = td] :
        ty \in TypeInputs, bi \in IntervalInputs, td \in TrialInputs}
    \cup {[DefaultBody EXCEPT !.title = ""],
          [DefaultBody EXCEPT !.price = Null],
          [DefaultBody EXCEPT !.price = Some(0)],
          [DefaultBody EXCEPT !.type = ""],
          [DefaultBody EXCEPT !.price = Some(0 - 100)],
          [DefaultBody EXCEPT !.affiliatePercent = Some(0)],
          [DefaultBody EXCEPT !.affiliatePercent = Some(100)],
          [DefaultBody EXCEPT !.affiliatePercent = Some(150)],
          [DefaultBody EXCEPT !.deliverables = Some(<<KeySpec(<<"K1">>)>>),
                              !.affiliatePercent = Some(20)]}

InitProduct ==
    /\ users = TwoUsers
    /\ sessions = TwoSessions
    /\ stores = <<[id |-> 1, ownerId |-> 1, name |-> "Acme", category |-> "tools"]>>
    /\ products = <<>>
    /\ orders = <<>>
    /\ referrals = <<>>
    /\ nextId = [InitIds EXCEPT !.User = 3, !.Store = 2]
    /\ tokens = 2
    /\ inflight = EmptyBag
    /\ now = 1
    /\ req = NoRequest
    /\ res = NoResponse

NextProduct ==
    \/ \E b \in ProductBodies : CreateProduct(Some(1), 1, b)
    \/ CreateProduct(Some(2), 1, DefaultBody)
    \/ CreateProduct(Some(1), 2, DefaultBody)
    \/ /\ Len(orders) < MaxBilled
       /\ \E p \in 1..MaxProducts : Checkout(Some(2), p, "")
    \/ \E o \in 1..MaxBilled : Cancel(Some(2), o)

SpecProduct == InitProduct /\ [][NextProduct]_vars

\* The offer part: products of unusual price and percent, bought by both
\* users with and without the referral code of user 1.

OfferBodies ==
    {DefaultBody,
     [DefaultBody EXCEPT !.price = Some(0 - 100)],
     [DefaultBody EXCEPT !.price = Some(0 - 100), !.affiliatePercent = Some(150)],
     [DefaultBody EXCEPT !.affiliatePercent = Some(100)],
     [DefaultBody EXCEPT !.affiliatePercent = Some(150)],
     [DefaultBody EXCEPT !.type = "subscription", !.price = Some(0 - 100)]}

NextOffer ==
    \/ \E b \in OfferBodies : CreateProduct(Some(1), 1, b)
    \/ /\ Len(orders) < MaxBilled
       /\ \E t \in OpenTokens, p \in 1..MaxProducts, c \in RefInputs : Checkout(t, p, c)
    \/ \E o \in 1..MaxBilled : Cancel(Some(2), o)

SpecOffer == InitProduct /\ [][NextOffer]_vars

----------------------------------------------------------------------------
\* The order list part: both users buy from the billing catalog, the seller
\* reprices, the buyers cancel, and everybody, with or without a session, asks
\* for their orders.

NextOrders ==
    \/ /\ Len(orders) < MaxBilled
       /\ \E t \in OpenTokens, p \in {1, 3} : Checkout(t, p, "")
    \/ \E t \in OpenTokens, o \in 1..MaxBilled : Cancel(t, o)
    \/ \E p \in {1, 3}, price \in UpdatePrices : Product_update(p, price)
    \/ \E t \in TokenInputs : ListOrders(t)

SpecOrders == InitBilling /\ [][NextOrders]_vars

----------------------------------------------------------------------------
\* The faulty deliverable part: user 1 sells a one-time product whose second
\* deliverable spec is {type: 'license_keys'} without details, as
\* POST /api/products stores it, and a healthy subscription; both users buy,
\* with and without the referral code of user 1.

BrokenSpec ==
    [type |-> "license_keys", hasDetails |-> FALSE, keysIsArray |-> FALSE, keys |-> <<>>]

FaultCatalog ==
    <<[id |-> 1, storeId |-> 1, price |-> 999, type |-> "one_time",
       billingInterval |-> Null, trialDays |-> Null,
       deliverables |-> <<KeySpec(<<"K1", "K2">>), BrokenSpec>>, affiliatePercent |-> 10],
      [id |-> 2, storeId |-> 1, price |-> 1000, type |-> "subscription",
       billingInterval |-> Some("monthly"), trialDays |-> Null,
       deliverables |-> <<KeySpec(<<"A1">>), OtherSpec("file")>>, affiliatePercent |-> 5]>>

InitFault ==
    /\ users = TwoUsers
    /\ sessions = TwoSessions
    /\ stores = <<[id |-> 1, ownerId |-> 1, name |-> "Acme", category |-> "tools"]>>
    /\ products = FaultCatalog
    /\ orders = <<>>
    /\ referrals = <<>>
    /\ nextId = [InitIds EXCEPT !.User = 3, !.Store = 2, !.Product = 3]
    /\ tokens = 2
    /\ inflight = EmptyBag
    /\ now = 1
    /\ req = NoRequest
    /\ res = NoResponse

NextFault ==
    \/ /\ Len(orders) < MaxBilled
       /\ Len(referrals) < MaxBilled
       /\ \E t \in OpenTokens, p \in {1, 2, 3}, c \in RefInputs : Checkout(t, p, c)
    \/ \E t \in OpenTokens, o \in 1..MaxBilled : Cancel(t, o)
    \/ \E t \in OpenTokens : ListOrders(t)

SpecFault == InitFault /\ [][NextFault]_vars

----------------------------------------------------------------------------
\* The referral part: user 1 holds referral code c1 and sells a one-time
\* product; a second user registers, with or without that code, and buys,
\* with or without it; both ask for their statistics.

InitRefer ==
    /\ users = <<TwoUsers[1]>>
    /\ sessions = [t \in {1} |-> 1]
    /\ stores = <<[id |-> 1, ownerId |-> 1, name |-> "Acme", category |-> "tools"]>>
    /\ products = <<[id |-> 1, storeId |-> 1, price |-> 1000, type |-> "one_time",
                     billingInterval |-> Null, trialDays |-> Null,
                     deliverables |-> <<OtherSpec("file")>>, affiliatePercent |-> 10]>>
    /\ orders = <<>>
    /\ referrals = <<>>
    /\ nextId = [InitIds EXCEPT !.User = 2, !.Store = 2, !.Product = 2]
    /\ tokens = 1
    /\ inflight = EmptyBag
    /\ now = 1
    /\ req = NoRequest
    /\ res = NoResponse

NextRefer ==
    \/ \E p \in RegPasswords, r \in RefInputs : RegisterBegin("b@x", p, r)
    \/ \E r \in BagToSet(inflight), c \in Codes : RegisterResume(r, c)
    \/ /\ Len(orders) < MaxBilled
       /\ \E t \in OpenTokens, c \in RefInputs : Checkout(t, 1, c)
    \/ \E t \in OpenTokens : Stats(t)

SpecRefer == InitRefer /\ [][NextRefer]_vars

----------------------------------------------------------------------------
\* The authentication gate part: user 1 owns a store; every protected route
\* is called without a token, with a token that was never issued, with the
\* token of a session that was logged out, and with the token of an open
\* session.

GateBody ==
    [DefaultBody EXCEPT !.type = "subscription",
                        !.deliverables = Some(<<KeySpec(<<"K1", "K2">>)>>)]

\* No token, token 0 that no session was ever opened with, and the tokens of
\* the two sessions, open or logged out.
GateTokens == {Null, Some(0)} \cup OpenTokens

InitGate ==
    /\ users = TwoUsers
    /\ sessions = TwoSessions
    /\ stores = <<[id |-> 1, ownerId |-> 1, name |-> "Acme", category |-> "tools"]>>
    /\ products = <<>>
    /\ orders = <<>>
    /\ referrals = <<>>
    /\ nextId = [InitIds EXCEPT !.User = 3, !.Store = 2]
    /\ tokens = 2
    /\ inflight = EmptyBag
    /\ now = 1
    /\ req = NoRequest
    /\ res = NoResponse

NextGate ==
    \/ \E t \in GateTokens : Logout(t)
    \/ \E t \in GateTokens : CreateStore(t, "Bolt", "tools")
    \/ \E t \in GateTokens : UpdateStore(t, 1, "Bolt", "")
    \/ \E t \in GateTokens : CreateProduct(t, 1, GateBody)
    \/ /\ Len(orders) < MaxBilled
       /\ \E t \in GateTokens, c \in RefInputs : Checkout(t, 1, c)
    \/ \E t \in GateTokens : ListOrders(t)
    \/ \E t \in GateTokens : Cancel(t, 1)
    \/ \E t \in GateTokens : Stats(t)

SpecGate == InitGate /\ [][NextGate]_vars

----------------------------------------------------------------------------
\* Vocabulary of the statements below.

\* The positions of an order's deliverables that hold an assigned license key.
KeySlots(o) ==
    {a \in 1..Len(o.deliverables) :
        o.deliverables[a].type = "license_key" /\ o.deliverables[a].key # Null}

\* The keys still in some pool of some product.
PoolKeys ==
    UNION {UNION {Range(products[i].deliverables[k].keys) :
                     k \in 1..Len(products[i].deliverables)} : i \in 1..Len(products)}

\* The step is the handling of a request to operation op: the clock's ticks
\* leave the last request and response in place.
Handled(op) == req'.op = op /\ now' = now

\* The step handled an authenticated checkout of an existing product.
CheckoutOf(p) ==
    /\ Handled("checkout")
    /\ requireAuth(req'.token) # Null
    /\ Product_findById(req'.productId) = Some(p)

\* Spec k of product p is a license-key pool, and it is empty.
IsPool(p, k) == p.deliverables[k].type = "license_keys" /\ p.deliverables[k].keysIsArray

EmptyPool(p, k) == IsPool(p, k) /\ p.deliverables[k].keys = <<>>

----------------------------------------------------------------------------
\* C1: no license key is held by two orders (or twice by one), and a key
\* held by an order is in no pool: it is never put back or issued again, also
\* not after the order is cancelled.
C1_NoKeyTwice ==
    /\ \A i, j \in 1..Len(orders) :
          \A a \in KeySlots(orders[i]), b \in KeySlots(orders[j]) :
             orders[i].deliverables[a].key = orders[j].deliverables[b].key
                => i = j /\ a = b
    /\ \A i \in 1..Len(orders) :
          \A a \in KeySlots(orders[i]) : orders[i].deliverables[a].key[1] \notin PoolKeys

\* C1 witness: two orders of product 1 hold a key each, one of them cancelled.
C1_Witness ==
    \E i, j \in 1..Len(orders) :
        /\ i # j
        /\ orders[i].productId = 1 /\ orders[j].productId = 1
        /\ KeySlots(orders[i]) # {} /\ KeySlots(orders[j]) # {}
        /\ orders[i].status = "cancelled"

\* C2: a checkout of a product with an empty license-key pool fails and
\* persists no order, and no order holds a license_key without a key.
C2_EmptyPoolFails ==
    /\ [][\A p \in Range(products) :
            (CheckoutOf(p) /\ \E k \in 1..Len(p.deliverables) : EmptyPool(p, k))
               => res'.status # 200 /\ orders' = orders]_vars
    /\ [](\A i \in 1..Len(orders) : \A a \in 1..Len(orders[i].deliverables) :
            orders[i].deliverables[a].type = "license_key"
               => orders[i].deliverables[a].key # Null)

\* C3: a checkout of a product whose earlier pool holds a key and whose later
\* pool is empty fails and leaves every pool and the orders as they were.
C3_AllocationAtomic ==
    [][\A p \in Range(products) :
         (CheckoutOf(p) /\ \E k, l \in 1..Len(p.deliverables) :
                              k < l /\ IsPool(p, k) /\ ~EmptyPool(p, k) /\ EmptyPool(p, l))
            => res'.status # 200 /\ products' = products /\ orders' = orders]_vars

\* C5: an order is created active, and its status changes only from active
\* to cancelled, by a successful cancel; a cancelled order stays cancelled.
C5_StatusMachine ==
    [][/\ Len(orders') >= Len(orders)
       /\ \A i \in 1..Len(orders) :
            /\ orders'[i].id = orders[i].id
            /\ orders'[i].status # orders[i].status
                 => /\ orders[i].status = "active"
                    /\ orders'[i].status = "cancelled"
                    /\ req' = [op |-> "cancel", token |-> req'.token, orderId |-> orders[i].id]
                    /\ res'.status = 200
       /\ \A i \in (Len(orders) + 1)..Len(orders') : orders'[i].status = "active"
      ]_vars

\* C5 witness: the buyer cancelled an order a second time, at a later
\* instant, and it is still cancelled.
C5_Witness ==
    /\ req.op = "cancel"
    /\ res.status = 200
    /\ now = 2
    /\ \E i \in 1..Len(orders) :
          /\ orders[i].id = req.orderId
          /\ orders[i].status = "cancelled"
          /\ \E j \in 1..Len(orders) : orders[j].status = "active" /\ orders[j].productId = 1

\* C6: a cancel by the buyer of an order that is already cancelled fails and
\* leaves the order as it is; endedAt keeps the first cancellation's time.
C6_CancelTwiceFails ==
    [][\A i \in 1..Len(orders) :
         (/\ req' = [op |-> "cancel", token |-> req'.token, orderId |-> orders[i].id]
          /\ requireAuth(req'.token) # Null
          /\ requireAuth(req'.token)[1].id = orders[i].userId
          /\ orders[i].status = "cancelled")
            => res'.status # 200 /\ orders'[i] = orders[i]]_vars

\* C7: at most one store per owner; createStore by a user who already owns a
\* store fails (with the conflict error when name and category are given) and
\* leaves the stores as they are.
C7_OneStorePerOwner ==
    /\ [](\A i, j \in 1..Len(stores) : stores[i].ownerId = stores[j].ownerId => i = j)
    /\ [][(/\ req'.op = "createStore"
           /\ requireAuth(req'.token) # Null
           /\ \E i \in 1..Len(stores) : stores[i].ownerId = requireAuth(req'.token)[1].id)
          => /\ res'.status = 400
             /\ stores' = stores
             /\ (req'.name # "" /\ req'.category # "")
                   => res'.error = "User already has a store"]_vars

\* C7 witness: both users own a store and a further createStore was refused.
C7_Witness ==
    /\ Len(stores) = 2
    /\ req.op = "createStore"
    /\ res.error = "User already has a store"

\* C10: the commission of an order with a referrer is price * percent / 100
\* rounded half-up to cents.
C10_CommissionHalfUp ==
    \A i \in 1..Len(orders) :
        orders[i].affiliateReferrerId # Null
           => orders[i].affiliateCommission =
                 HalfUpCommission(orders[i].price,
                                  Product_findById(orders[i].productId)[1].affiliatePercent)

\* The users holding referral code c, and the holder the lookup finds.
Holders(c) == {i \in 1..Len(users) : users[i].referralCode = c}

FirstHolder(c) == users[CHOOSE i \in Holders(c) : \A j \in Holders(c) : i <= j]

\* The step handled an authenticated checkout of an existing product by
\* buyer b whose referral code attributes to nobody: no code, a code nobody
\* holds, or the buyer's own.
UnattributedCheckout(b) ==
    /\ Handled("checkout")
    /\ requireAuth(req'.token) = Some(b)
    /\ Product_findById(req'.productId) # Null
    /\ \/ req'.referralCode = ""
       \/ Holders(req'.referralCode) = {}
       \/ (Holders(req'.referralCode) # {} /\ FirstHolder(req'.referralCode).id = b.id)

\* C11: a checkout whose referral code is absent, resolves to no known user
\* or resolves to the buyer succeeds, its order has no referrer and a
\* commission of 0, and no affiliate referral is added.
C11_NoAttribution ==
    [][\A b \in Range(users) :
         UnattributedCheckout(b)
            => /\ res'.status = 200
               /\ referrals' = referrals
               /\ Len(orders') = Len(orders) + 1
               /\ orders'[Len(orders')].userId = b.id
               /\ orders'[Len(orders')].affiliateReferrerId = Null
               /\ orders'[Len(orders')].affiliateCommission = 0]_vars

\* C11 witness: after an attributed checkout, a buyer has checked out with
\* their own referral code.
C11_Witness ==
    /\ req.op = "checkout"
    /\ res.status = 200
    /\ requireAuth(req.token) # Null
    /\ req.referralCode = requireAuth(req.token)[1].referralCode
    /\ Len(referrals) = 1
    /\ Len(orders) = 2
    /\ orders[1].affiliateCommission > 0
    /\ orders[2].affiliateReferrerId = Null

\* The step handled an authenticated checkout of an existing product by
\* buyer b whose referral code resolves to another user.
AttributedCheckout(b) ==
    /\ Handled("checkout")
    /\ requireAuth(req'.token) = Some(b)
    /\ Product_findById(req'.productId) # Null
    /\ Holders(req'.referralCode) # {}
    /\ FirstHolder(req'.referralCode).id # b.id

\* C12: a successful checkout whose referral code resolves to a user R other
\* than the buyer B appends exactly one affiliate referral (R, B) and exactly
\* one order, whose affiliateReferrerId is R.
C12_Attribution ==
    [][\A b \in Range(users) :
         (AttributedCheckout(b) /\ res'.status = 200)
            => LET R == FirstHolder(req'.referralCode)
               IN  /\ Len(referrals') = Len(referrals) + 1
                   /\ SubSeq(referrals', 1, Len(referrals)) = referrals
                   /\ referrals'[Len(referrals')].referrerId = R.id
                   /\ referrals'[Len(referrals')].referredUserId = b.id
                   /\ Len(orders') = Len(orders) + 1
                   /\ SubSeq(orders', 1, Len(orders)) = orders
                   /\ orders'[Len(orders')].userId = b.id
                   /\ orders'[Len(orders')].affiliateReferrerId = Some(R.id)]_vars

\* C12 witness: buyer 2 has checked out twice with the code of user 1.
C12_Witness ==
    /\ req.op = "checkout"
    /\ res.status = 200
    /\ req.referralCode = "c1"
    /\ Len(referrals) = 2
    /\ referrals[1].referrerId = 1 /\ referrals[1].referredUserId = 2
    /\ referrals[2].referrerId = 1 /\ referrals[2].referredUserId = 2
    /\ Len(orders) = 2
    /\ orders[2].affiliateReferrerId = Some(1)

\* The number of the day of a date, counted from 2024-01-01 as day 1.
RECURSIVE DaysBeforeYear(_)
DaysBeforeYear(y) ==
    IF y <= 2024 THEN 0
    ELSE DaysBeforeYear(y - 1) + (IF IsLeap(y - 1) THEN 366 ELSE 365)

RECURSIVE DaysBeforeMonth(_, _)
DaysBeforeMonth(y, m) ==
    IF m = 0 THEN 0 ELSE DaysBeforeMonth(y, m - 1) + DaysInMonth(y, m - 1)

DayNumber(date) == DaysBeforeYear(date.y) + DaysBeforeMonth(date.y, date.m) + date.d

IsDate(date) == date.m \in 0..11 /\ date.d \in 1..DaysInMonth(date.y, date.m)

\* Date `next' is date `from' moved by `months' calendar months: the same
\* day of the month when the target month has it, else as many days past
\* the target month's end as the day is past that month's length.
MovedByMonths(from, months, next) ==
    LET ty == from.y + ((from.m + months) \div 12)
        tm == (from.m + months) % 12
    IN  /\ IsDate(next)
        /\ DayNumber(next) = DayNumber([y |-> ty, m |-> tm, d |-> 1]) + from.d - 1
        /\ from.d <= DaysInMonth(ty, tm) => next = [y |-> ty, m |-> tm, d |-> from.d]

\* C13: the nextBillingAt of a new subscription order is the checkout time
\* moved by one calendar month (monthly) or one calendar year (yearly), a day
\* past the month's end rolling into the following month: a monthly checkout
\* on 2024-01-31 gives 2024-03-02.
C13_NextBilling ==
    [][\A p \in Range(products) :
         (CheckoutOf(p) /\ res'.status = 200 /\ p.type = "subscription")
            => LET next == orders'[Len(orders')].nextBillingAt
               IN  /\ next # Null
                   /\ p.billingInterval = Some("monthly")
                        => /\ MovedByMonths(ClockDate(now), 1, next[1])
                           /\ ClockDate(now) = [y |-> 2024, m |-> 0, d |-> 31]
                                => next[1] = [y |-> 2024, m |-> 2, d |-> 2]
                   /\ p.billingInterval = Some("yearly")
                        => MovedByMonths(ClockDate(now), 12, next[1])]_vars

\* C13 witness: a monthly order placed on 2024-01-31 is billed next on
\* 2024-03-02, and a yearly order placed on 2024-02-29 on 2025-03-01.
C13_Witness ==
    /\ \E i \in 1..Len(orders) :
          /\ orders[i].productId = 1
          /\ orders[i].nextBillingAt = Some([y |-> 2024, m |-> 2, d |-> 2])
    /\ \E i \in 1..Len(orders) :
          /\ orders[i].productId = 2
          /\ orders[i].nextBillingAt = Some([y |-> 2025, m |-> 2, d |-> 1])

\* C14: a stored one_time product has neither billingInterval nor
\* trialDays, whatever the createProduct request carried, and an order of a
\* one_time product has no nextBillingAt in any state.
C14_OneTimeNoBilling ==
    /\ [](\A p \in Range(products) :
            p.type = "one_time" => p.billingInterval = Null /\ p.trialDays = Null)
    /\ [](\A i \in 1..Len(orders) :
            Product_findById(orders[i].productId)[1].type = "one_time"
               => orders[i].nextBillingAt = Null)
    /\ [][(/\ Handled("createProduct")
           /\ res'.status = 200
           /\ req'.body.type = "one_time")
          => /\ Len(products') = Len(products) + 1
             /\ products'[Len(products')].type = "one_time"
             /\ products'[Len(products')].billingInterval = Null
             /\ products'[Len(products')].trialDays = Null]_vars

\* C14 witness: a createProduct of type one_time whose request carried a
\* yearly interval and a trial of 7 days has succeeded.
C14_Witness ==
    /\ req.op = "createProduct"
    /\ req.body.type = "one_time"
    /\ req.body.billingInterval = Some("yearly")
    /\ req.body.trialDays = Some(7)
    /\ res.status = 200
    /\ Len(products) = 1
    /\ products[1].billingInterval = Null
    /\ products[1].trialDays = Null

\* C15: every stored product has type one_time or subscription and a
\* billingInterval that is monthly or yearly exactly when it is a
\* subscription and absent otherwise; a subscription created without an
\* interval is monthly.
C15_ProductKinds ==
    /\ [](\A p \in Range(products) :
            /\ p.type \in {"one_time", "subscription"}
            /\ p.billingInterval \in {Null, Some("monthly"), Some("yearly")}
            /\ p.billingInterval # Null <=> p.type = "subscription")
    /\ [][(/\ Handled("createProduct")
           /\ res'.status = 200
           /\ req'.body.type = "subscription"
           /\ req'.body.billingInterval = Null)
          => products'[Len(products')].billingInterval = Some("monthly")]_vars

\* The step handled a cancel of order i sent by its buyer.
CancelByBuyer(i) ==
    /\ Handled("cancel")
    /\ req'.orderId = orders[i].id
    /\ requireAuth(req'.token) # Null
    /\ requireAuth(req'.token)[1].id = orders[i].userId

\* C16: a cancel sent by the buyer for an order of a one_time product fails
\* with the invalid-operation error and leaves the order as it is: active,
\* without endedAt.
C16_CancelOneTime ==
    [][\A i \in 1..Len(orders) :
         (/\ CancelByBuyer(i)
          /\ Product_findById(orders[i].productId)[1].type = "one_time")
            => /\ res' = Fail("cancel", 400, "Only subscriptions can be cancelled")
               /\ orders' = orders
               /\ orders'[i].status = "active"
               /\ orders'[i].endedAt = Null]_vars

\* C16 witness: the buyer's cancel of an order of the one-time product was
\* refused after their cancel of a subscription order went through.
C16_Witness ==
    /\ req = [op |-> "cancel", token |-> Some(2), orderId |-> 2]
    /\ res.status = 400
    /\ Len(orders) = 2
    /\ orders[1].status = "cancelled"
    /\ orders[2].productId = 3
    /\ orders[2].status = "active"

\* C17: a cancel for an order id that does not exist, or sent by a user who
\* is not the order's buyer, fails with the not-found error and changes no
\* order.
C17_CancelNotFound ==
    [][(/\ Handled("cancel")
        /\ requireAuth(req'.token) # Null
        /\ \A i \in 1..Len(orders) :
              orders[i].id = req'.orderId
                 => orders[i].userId # requireAuth(req'.token)[1].id)
       => /\ res' = Fail("cancel", 404, "Order not found")
          /\ orders' = orders]_vars

\* C17 witness: user 1 asked to cancel the active subscription order of
\* user 2 and was refused.
C17_Witness ==
    /\ req = [op |-> "cancel", token |-> Some(1), orderId |-> 1]
    /\ res.status = 404
    /\ Len(orders) >= 1
    /\ orders[1].userId = 2
    /\ orders[1].productId = 1
    /\ orders[1].status = "active"

\* C18: a successful cancel of an active subscription order sets its status
\* to cancelled, its endedAt to the time of the cancel and its nextBillingAt
\* to null, and changes nothing else: not the order's id, buyer, product,
\* price, deliverables, referrer or commission, no other order, no pool, no
\* affiliate referral.
C18_CancelFrame ==
    [][\A i \in 1..Len(orders) :
         (/\ Handled("cancel")
          /\ res'.status = 200
          /\ req'.orderId = orders[i].id
          /\ orders[i].status = "active")
            => /\ Len(orders') = Len(orders)
               /\ orders'[i].status = "cancelled"
               /\ orders'[i].endedAt = Some(ClockDate(now))
               /\ orders'[i].nextBillingAt = Null
               /\ orders'[i].id = orders[i].id
               /\ orders'[i].userId = orders[i].userId
               /\ orders'[i].productId = orders[i].productId
               /\ orders'[i].price = orders[i].price
               /\ orders'[i].deliverables = orders[i].deliverables
               /\ orders'[i].affiliateReferrerId = orders[i].affiliateReferrerId
               /\ orders'[i].affiliateCommission = orders[i].affiliateCommission
               /\ \A j \in 1..Len(orders) : j # i => orders'[j] = orders[j]
               /\ products' = products
               /\ referrals' = referrals
               /\ UNCHANGED <<users, sessions, stores>>]_vars

\* C18 witness: on 2024-02-29 the buyer cancelled a referred subscription
\* order holding a license key, next to an order that is still active.
C18_Witness ==
    /\ req = [op |-> "cancel", token |-> Some(2), orderId |-> 1]
    /\ res.status = 200
    /\ Len(orders) = 2
    /\ orders[1].status = "cancelled"
    /\ orders[1].endedAt = Some([y |-> 2024, m |-> 1, d |-> 29])
    /\ orders[1].nextBillingAt = Null
    /\ KeySlots(orders[1]) # {}
    /\ orders[1].affiliateReferrerId = Some(1)
    /\ orders[1].affiliateCommission > 0
    /\ orders[2].status = "active"
    /\ orders[2].nextBillingAt # Null
    /\ Len(referrals) >= 1

\* C19: the price of an order is the price its product had at the moment of
\* the checkout, and no later step changes it: not a cancel, not a change of
\* the product's price.
C19_PriceSnapshot ==
    [][/\ Len(orders') >= Len(orders)
       /\ \A i \in 1..Len(orders) : orders'[i].price = orders[i].price
       /\ \A i \in (Len(orders) + 1)..Len(orders') :
             orders'[i].price = Product_findById(orders'[i].productId)[1].price
      ]_vars

\* C19 witness: product 1 was bought at 999 and, after its price was raised,
\* at 1500; the first order was then cancelled and still says 999.
C19_Witness ==
    /\ Len(orders) = 2
    /\ orders[1].productId = 1 /\ orders[1].price = 999
    /\ orders[2].productId = 1 /\ orders[2].price = 1500
    /\ orders[1].status = "cancelled"
    /\ Product_findById(1)[1].price = 30

\* The step is the arrival of a request to operation op: a step that resumes
\* a suspended handler takes its request out of the requests in flight.
Arrived(op) ==
    Handled(op) /\ BagCardinality(inflight') >= BagCardinality(inflight)

\* C20: a register request whose email belongs to a stored user fails with
\* the conflict error and changes nothing: no user, no session token, no
\* affiliate referral, also when it carries the referral code of a stored
\* user.
C20_RegisterConflict ==
    [][(/\ Arrived("register")
        /\ req'.email # ""
        /\ req'.password # ""
        /\ \E i \in 1..Len(users) : users[i].email = req'.email)
       => /\ res' = Fail("register", 400, "User with this email already exists")
          /\ UNCHANGED <<collections, tokens, nextId, inflight>>]_vars

\* C20 witness: a register for the email of user 1, carrying the referral
\* code of user 1, was refused.
C20_Witness ==
    /\ req.op = "register"
    /\ res = Fail("register", 400, "User with this email already exists")
    /\ req.ref = "c1"
    /\ \E i \in 1..Len(users) :
          users[i].email = req.email /\ users[i].referralCode = "c1"
    /\ referrals = <<>>

\* The step completed a register: the user was stored and the response sent.
Registered ==
    /\ Handled("register")
    /\ res'.status = 200
    /\ Len(users') = Len(users) + 1

\* C21: a successful register records exactly one affiliate referral (code
\* owner, new user) when its referral code is held by a user other than the
\* new one, and none otherwise; a code nobody holds does not make register
\* fail; no referral made at registration has the referrer as the referred.
C21_RegisterReferral ==
    /\ [][Registered =>
            LET new == users'[Len(users')]
                code == req'.ref
            IN  IF code # "" /\ Holders(code) # {}
                THEN /\ Len(referrals') = Len(referrals) + 1
                     /\ SubSeq(referrals', 1, Len(referrals)) = referrals
                     /\ referrals'[Len(referrals')].referrerId = FirstHolder(code).id
                     /\ referrals'[Len(referrals')].referredUserId = new.id
                ELSE referrals' = referrals]_vars
    /\ [][(Arrived("register") /\ req'.email # "" /\ req'.password # ""
             /\ User_findByEmail(req'.email) = Null)
          => res'.status = 0]_vars
    /\ [](\A i \in 1..Len(referrals) :
            referrals[i].referrerId # referrals[i].referredUserId)

\* C22, as stated: logout always succeeds, and a logout with a token that is
\* not in the session table leaves the table as it is.
C22_LogoutAlwaysSucceeds ==
    [][Handled("logout")
         => /\ res'.status = 200
            /\ (req'.token = Null \/ req'.token[1] \notin DOMAIN sessions)
                  => sessions' = sessions]_vars

\* C22, amended: a logout with a token of the session table succeeds and
\* removes that token alone; a logout with a token that was logged out
\* before, or with none, is refused with 401 and leaves the session table as
\* it is, so a second logout(t) ends in the state of the first but fails.
C22_LogoutTwice ==
    [][Handled("logout")
         => IF req'.token # Null /\ req'.token[1] \in DOMAIN sessions
            THEN /\ res' = Ok("logout", [success |-> TRUE])
                 /\ DOMAIN sessions' = DOMAIN sessions \ {req'.token[1]}
                 /\ \A t \in DOMAIN sessions' : sessions'[t] = sessions[t]
            ELSE /\ res'.status = 401
                 /\ sessions' = sessions]_vars

\* C22 witness: token 1 was logged out and a further logout with it was
\* refused, while the session of token 2 is still open.
C22_Witness ==
    /\ req = [op |-> "logout", token |-> Some(1)]
    /\ res.status = 401
    /\ 1 \notin DOMAIN sessions
    /\ 2 \in DOMAIN sessions
    /\ tokens >= 1

\* The sum of the commissions, in cents, of the orders whose referrer is u.
RECURSIVE CommissionSum(_, _)
CommissionSum(u, n) ==
    IF n = 0 THEN 0
    ELSE CommissionSum(u, n - 1)
            + (IF orders[n].affiliateReferrerId = Some(u) THEN orders[n].affiliateCommission
               ELSE 0)

\* C23: stats answers, for its requester u, the number of affiliate
\* referrals whose referrer is u and the sum of the commissions of all orders
\* whose referrer is u, cancelled ones included, and changes no state.
C23_Stats ==
    [][\A u \in Range(users) :
         (Handled("stats") /\ requireAuth(req'.token) = Some(u))
            => /\ res'.status = 200
               /\ res'.data[1].referrals =
                     Cardinality({i \in 1..Len(referrals) : referrals[i].referrerId = u.id})
               /\ res'.data[1].earnings = CommissionSum(u.id, Len(orders))
               /\ UNCHANGED <<collections, nextId, tokens, inflight>>]_vars

\* C23 witness: user 1 is the referrer of two orders of different
\* commissions, one of them cancelled, and has asked for the statistics.
C23_Witness ==
    /\ req = [op |-> "stats", token |-> Some(1)]
    /\ res.status = 200
    /\ Len(orders) = 2
    /\ orders[1].affiliateReferrerId = Some(1)
    /\ orders[2].affiliateReferrerId = Some(1)
    /\ orders[1].affiliateCommission # orders[2].affiliateCommission
    /\ orders[1].status = "cancelled"
    /\ orders[2].status = "active"
    /\ res.data[1].earnings = orders[1].affiliateCommission + orders[2].affiliateCommission
    /\ res.data[1].referrals = 2

\* C24: no two users hold the same referral code, so a referral code
\* resolves to at most one user.
C24_UniqueReferralCode ==
    \A i, j \in 1..Len(users) : users[i].referralCode = users[j].referralCode => i = j

\* The step handled a createProduct of an authenticated user u.
CreateProductBy(u) ==
    Handled("createProduct") /\ requireAuth(req'.token) = Some(u)

\* C25: createProduct fails with the not-found error for a store that does
\* not exist, with the forbidden error for a requester who does not own the
\* store, and with the invalid-argument error when title, price or type is
\* missing, and adds no product then; so every product is added by the owner
\* of its store and names a stored store.
C25_CreateProductFailures ==
    /\ [][\A u \in Range(users) :
            CreateProductBy(u)
               => LET store == Store_findById(req'.storeId)
                      body == req'.body
                  IN  /\ store = Null
                           => /\ res' = Fail("createProduct", 404, "Store not found")
                              /\ products' = products
                      /\ (store # Null /\ store[1].ownerId # u.id)
                           => /\ res' = Fail("createProduct", 403,
                                             "You do not own this store")
                              /\ products' = products
                      /\ (/\ store # Null /\ store[1].ownerId = u.id
                          /\ (body.title = "" \/ body.price = Null \/ body.type = ""))
                           => /\ res' = Fail("createProduct", 400,
                                             "Title, price and type are required")
                              /\ products' = products]_vars
    /\ [][Len(products') # Len(products)
            => /\ Handled("createProduct")
               /\ res'.status = 200
               /\ Len(products') = Len(products) + 1
               /\ SubSeq(products', 1, Len(products)) = products
               /\ \E i \in 1..Len(stores) :
                     /\ stores[i].id = products'[Len(products')].storeId
                     /\ stores[i].id = req'.storeId
                     /\ requireAuth(req'.token) # Null
                     /\ stores[i].ownerId = requireAuth(req'.token)[1].id]_vars
    /\ [](\A p \in Range(products) : Store_findById(p.storeId) # Null)

\* C25 witness: after the owner has created a product, a createProduct of
\* user 2 for the store of user 1 was refused.
C25_Witness ==
    /\ req.op = "createProduct"
    /\ req.token = Some(2)
    /\ res.status = 403
    /\ Len(products) = 1
    /\ products[1].storeId = 1

\* C26: every stored product has a price that is not negative and an
\* affiliatePercent within 0..100; the percent is 5 when the createProduct
\* request gives none and the given value, 0 and 100 included, when it
\* gives one.
C26_PriceAndPercent ==
    /\ [](\A p \in Range(products) : p.price >= 0 /\ p.affiliatePercent \in 0..100)
    /\ [][(Handled("createProduct") /\ res'.status = 200)
            => products'[Len(products')].affiliatePercent =
                  IF req'.body.affiliatePercent = Null THEN 5
                  ELSE req'.body.affiliatePercent[1]]_vars

\* C27: the commission of every order is not negative, and it is 0 when the
\* order has no referrer.
C27_CommissionNotNegative ==
    \A i \in 1..Len(orders) :
        /\ orders[i].affiliateCommission >= 0
        /\ orders[i].affiliateReferrerId = Null => orders[i].affiliateCommission = 0

\* C28: a stored store changes only in a successful updateStore of its
\* owner, which keeps its id and ownerId; updateStore fails with the
\* not-found error for an unknown store and with the forbidden error for a
\* requester who is not the owner, and changes no store then.
C28_StoreOwnerOnly ==
    /\ [][/\ Len(stores') >= Len(stores)
          /\ \A i \in 1..Len(stores) :
                /\ stores'[i].id = stores[i].id
                /\ stores'[i].ownerId = stores[i].ownerId
                /\ stores'[i] # stores[i]
                     => /\ Handled("updateStore")
                        /\ req'.id = stores[i].id
                        /\ res'.status = 200
                        /\ requireAuth(req'.token) # Null
                        /\ requireAuth(req'.token)[1].id = stores[i].ownerId]_vars
    /\ [][\A u \in Range(users) :
            (Handled("updateStore") /\ requireAuth(req'.token) = Some(u))
               => LET store == Store_findById(req'.id)
                  IN  /\ store = Null
                           => /\ res' = Fail("updateStore", 404, "Store not found")
                              /\ stores' = stores
                      /\ (store # Null /\ store[1].ownerId # u.id)
                           => /\ res' = Fail("updateStore", 403,
                                             "You are not the owner of this store")
                              /\ stores' = stores]_vars

\* C28 witness: the owner has renamed store 1, and an updateStore of user 2
\* for it, carrying another name, was refused.
C28_Witness ==
    /\ req = [op |-> "updateStore", token |-> Some(2), id |-> 1, name |-> "Acme",
               category |-> ""]
    /\ res.status = 403
    /\ Len(stores) >= 1
    /\ stores[1].ownerId = 1
    /\ stores[1].name = "Bolt"

\* C29: a checkout whose product id names no stored product fails with the
\* not-found error and changes nothing: no order, no affiliate referral
\* (also with the referral code of another user), no pool.
C29_CheckoutNoProduct ==
    [][(/\ Handled("checkout")
        /\ requireAuth(req'.token) # Null
        /\ \A p \in Range(products) : p.id # req'.productId)
       => /\ res' = Fail("checkout", 404, "Product not found")
          /\ UNCHANGED <<collections, nextId, tokens>>]_vars

\* C29 witness: after an order that took a key, user 2 asked for a product
\* that does not exist, with the referral code of user 1, and was refused.
C29_Witness ==
    /\ req = [op |-> "checkout", token |-> Some(2), productId |-> 4,
               referralCode |-> "c1"]
    /\ res.status = 404
    /\ Len(orders) = 1
    /\ KeySlots(orders[1]) # {}
    /\ PoolKeys # {}

\* Products p and q are subscriptions that differ in trialDays (and id) only.
DifferInTrialOnly(p, q) ==
    /\ p.type = "subscription"
    /\ p.trialDays # q.trialDays
    /\ [p EXCEPT !.id = 0, !.trialDays = Null] = [q EXCEPT !.id = 0, !.trialDays = Null]

\* C30: trialDays has no part in the billing schedule: two orders placed at
\* the same instant for subscriptions that differ in trialDays only have the
\* same nextBillingAt, as long as neither is cancelled.
C30_TrialNoEffect ==
    \A i, j \in 1..Len(orders) :
        (/\ DifferInTrialOnly(Product_findById(orders[i].productId)[1],
                              Product_findById(orders[j].productId)[1])
         /\ orders[i].status = "active"
         /\ orders[j].status = "active")
           => /\ orders[i].nextBillingAt # Null
              /\ orders[i].nextBillingAt = orders[j].nextBillingAt

\* C30 witness: on 2024-02-29 the yearly subscription was bought without
\* and with the trial of 14 days; both orders are billed next on 2025-03-01.
C30_Witness ==
    /\ now = 2
    /\ Len(orders) = 2
    /\ orders[1].productId = 3 /\ orders[2].productId = 4
    /\ orders[1].status = "active" /\ orders[2].status = "active"
    /\ orders[1].nextBillingAt = Some([y |-> 2025, m |-> 2, d |-> 1])
    /\ orders[2].nextBillingAt = Some([y |-> 2025, m |-> 2, d |-> 1])

----------------------------------------------------------------------------
\* C31: the order list of an authenticated user holds exactly the orders
\* whose buyer is that user, each once and in the order of their creation,
\* never an order of another buyer, and the request changes no stored order.
C31_ListForUser ==
    [][(Handled("listOrders") /\ requireAuth(req'.token) # Null)
       => LET u == requireAuth(req'.token)[1].id
              own == {i \in 1..Len(orders) : orders[i].userId = u}
          IN  /\ res'.status = 200
              /\ LET ls == res'.data[1].orders
                 IN  /\ Len(ls) = Cardinality(own)
                     /\ \A k \in 1..Len(ls) :
                           /\ ls[k].order \in Range(orders)
                           /\ ls[k].order.userId = u
                     /\ \A i \in own : \E k \in 1..Len(ls) : ls[k].order = orders[i]
                     /\ \A k, l \in 1..Len(ls) : k < l => ls[k].order.id < ls[l].order.id
              /\ orders' = orders
      ]_vars

\* C31 witness: a buyer has been answered a list of their orders while the
\* other buyer holds an order too.
C31_Witness ==
    /\ req.op = "listOrders"
    /\ res.status = 200
    /\ Len(res.data[1].orders) >= 1
    /\ Len(orders) > Len(res.data[1].orders)

----------------------------------------------------------------------------
\* C32: a checkout request that ends without a persisted order, for any
\* reason, has recorded no affiliate referral and removed no license key.
C32_CheckoutUnit ==
    [][(Handled("checkout") /\ orders' = orders)
       => referrals' = referrals /\ products' = products]_vars

----------------------------------------------------------------------------
\* The affiliate referral records that carry the pair (referrer, referred).
PairRecords(refs, referrerId, referredUserId) ==
    {i \in 1..Len(refs) : /\ refs[i].referrerId = referrerId
                          /\ refs[i].referredUserId = referredUserId}

\* C33: a checkout of buyer B with the referral code of another user R adds
\* one more record (R, B) also when such a record exists already, from B's
\* registration or an earlier checkout, and the referral count that stats
\* answers R counts the records, not the distinct users R referred.
C33_DuplicateReferrals ==
    /\ [][\A b \in Range(users) :
            (AttributedCheckout(b) /\ res'.status = 200)
               => LET R == FirstHolder(req'.referralCode)
                  IN  Cardinality(PairRecords(referrals', R.id, b.id))
                         = Cardinality(PairRecords(referrals, R.id, b.id)) + 1]_vars
    /\ [][\A u \in Range(users) :
            (Handled("stats") /\ requireAuth(req'.token) = Some(u))
               => res'.data[1].referrals =
                     Cardinality({i \in 1..Len(referrals) : referrals[i].referrerId = u.id})]_vars

\* C33 witness: user 2 registered with the code of user 1 and checked out
\* once with it; two records carry the pair (1, 2), and stats has answered
\* user 1 a referral count of 2 for one referred user.
C33_Witness ==
    /\ Len(users) = 2
    /\ Len(orders) = 1
    /\ orders[1].userId = 2
    /\ orders[1].affiliateReferrerId = Some(1)
    /\ Len(referrals) = 2
    /\ PairRecords(referrals, 1, 2) = {1, 2}
    /\ req = [op |-> "stats", token |-> Some(1)]
    /\ res.status = 200
    /\ res.data[1].referrals = 2
    /\ res.data[1].referrals > Cardinality({referrals[i].referredUserId : i \in 1..Len(referrals)})

----------------------------------------------------------------------------
\* C34: a successful checkout removes, for each license_keys spec of the
\* product, exactly the first key of its pool and places that key as
\* {license_key, key} at the spec's position in the order's deliverables;
\* every other spec appears unchanged at its position, and the pools of all
\* other products are untouched.
C34_FirstKey ==
    [][\A n \in 1..Len(products) :
         (CheckoutOf(products[n]) /\ res'.status = 200)
            => LET p == products[n]
                   o == orders'[Len(orders')]
               IN  /\ Len(orders') = Len(orders) + 1
                   /\ Len(o.deliverables) = Len(p.deliverables)
                   /\ \A k \in 1..Len(p.deliverables) :
                         IF p.deliverables[k].type = "license_keys"
                         THEN /\ p.deliverables[k].keys # <<>>
                              /\ products'[n].deliverables[k].keys
                                    = Tail(p.deliverables[k].keys)
                              /\ o.deliverables[k]
                                    = [type |-> "license_key",
                                       key |-> Some(Head(p.deliverables[k].keys))]
                         ELSE /\ o.deliverables[k] = p.deliverables[k]
                              /\ products'[n].deliverables[k] = p.deliverables[k]
                   /\ \A m \in 1..Len(products) : m # n => products'[m] = products[m]]_vars

----------------------------------------------------------------------------
\* C35: every order is active or cancelled; its endedAt is set exactly when
\* it is cancelled; a cancelled order has no next billing date; an active
\* order of a subscription product has one.
C35_OrderShape ==
    \A i \in 1..Len(orders) :
        LET o == orders[i]
            product == Product_findById(o.productId)
        IN  /\ o.status \in {"active", "cancelled"}
            /\ (o.endedAt # Null) <=> (o.status = "cancelled")
            /\ o.status = "cancelled" => o.nextBillingAt = Null
            /\ (o.status = "active" /\ product # Null /\ product[1].type = "subscription")
                  => o.nextBillingAt # Null

\* C35 witness: a cancelled subscription order beside an active one.
C35_Witness ==
    /\ Len(orders) = 2
    /\ Product_findById(orders[1].productId)[1].type = "subscription"
    /\ Product_findById(orders[2].productId)[1].type = "subscription"
    /\ orders[1].status = "cancelled" /\ orders[1].endedAt # Null
    /\ orders[2].status = "active" /\ orders[2].nextBillingAt # Null
    /\ req.op = "cancel"
    /\ res.status = 200

----------------------------------------------------------------------------
\* C36: every order with a referrer names an existing user other than its
\* buyer, and some affiliate referral (referrer, buyer) is on record.
C36_ReferrerOnRecord ==
    \A i \in 1..Len(orders) :
        orders[i].affiliateReferrerId # Null
           => LET r == orders[i].affiliateReferrerId[1]
              IN  /\ \E u \in Range(users) : u.id = r
                  /\ r # orders[i].userId
                  /\ \E k \in 1..Len(referrals) :
                        /\ referrals[k].referrerId = r
                        /\ referrals[k].referredUserId = orders[i].userId

\* C36 witness: each of the two users holds an order referred by the other.
C36_Witness ==
    /\ Len(orders) = 2
    /\ orders[1].userId # orders[2].userId
    /\ orders[1].affiliateReferrerId = Some(orders[2].userId)
    /\ orders[2].affiliateReferrerId = Some(orders[1].userId)

----------------------------------------------------------------------------
\* The keys in the pool of spec k of the n-th product of ps.
PoolOf(ps, n, k) ==
    IF ps[n].deliverables[k].type = "license_keys"
    THEN Range(ps[n].deliverables[k].keys) ELSE {}

\* The keys that the orders os of product id hold at position k.
HeldOf(os, id, k) ==
    {os[i].deliverables[k].key[1] :
        i \in {j \in 1..Len(os) : /\ os[j].productId = id
                                   /\ k <= Len(os[j].deliverables)
                                   /\ k \in KeySlots(os[j])}}

\* C37: for every license_keys spec the keys in its pool and the keys held
\* by the orders of its product are disjoint, and no step loses one of them
\* or adds one: together they stay the keys of the initial pool.
C37_KeyConservation ==
    /\ [](\A n \in 1..Len(products) : \A k \in 1..Len(products[n].deliverables) :
            PoolOf(products, n, k) \cap HeldOf(orders, products[n].id, k) = {})
    /\ [][\A n \in 1..Len(products) : \A k \in 1..Len(products[n].deliverables) :
            (n <= Len(products') /\ k <= Len(products'[n].deliverables))
               => PoolOf(products', n, k) \cup HeldOf(orders', products[n].id, k)
                     = PoolOf(products, n, k) \cup HeldOf(orders, products[n].id, k)]_vars

----------------------------------------------------------------------------
\* C38: the nextBillingAt of a new order of a subscription product is
\* strictly later than the time of its checkout, whatever billing interval
\* the product was created with.
C38_NextBillingLater ==
    [][\A p \in Range(products) :
         (CheckoutOf(p) /\ p.type = "subscription" /\ res'.status = 200)
            => LET o == orders'[Len(orders')]
               IN  /\ o.nextBillingAt # Null
                   /\ DayNumber(o.nextBillingAt[1]) > DayNumber(ClockDate(now))]_vars

----------------------------------------------------------------------------
ProtectedOps ==
    {"logout", "createStore", "updateStore", "createProduct", "checkout",
     "listOrders", "cancel", "stats"}

\* C39: a request to a protected operation that carries no token, or a token
\* that is not in the session table, is answered 401 and changes no
\* collection: users, stores, products with their key pools, orders,
\* affiliate referrals and sessions stay as they are.
C39_Gate ==
    [][(/\ now' = now
        /\ req'.op \in ProtectedOps
        /\ (req'.token = Null \/ req'.token[1] \notin DOMAIN sessions))
       => /\ res'.status = 401
          /\ res'.data = Null
          /\ UNCHANGED <<collections, nextId>>]_vars

\* C39 witness: a checkout with the token of a logged-out session has been
\* rejected while a product with a key pool and an order exist.
C39_Witness ==
    /\ req.op = "checkout"
    /\ req.token # Null
    /\ req.token[1] \in 1..tokens
    /\ req.token[1] \notin DOMAIN sessions
    /\ res.status = 401
    /\ Len(products) = 1
    /\ Len(orders) >= 1

----------------------------------------------------------------------------
\* C4: no two User records have the same email, also when two register
\* requests for the same new email interleave at the hashPassword await.
C4_UniqueEmail ==
    \A i, j \in 1..Len(users) : users[i].email = users[j].email => i = j

\* C8: a session token authenticates as exactly the user it was issued for
\* from its issuance until the logout of that very token, whatever else
\* happens, and never again after that logout.
C8_TokenUntilLogout ==
    [][/\ \A t \in DOMAIN sessions' \ DOMAIN sessions :
            /\ t \notin 1..tokens
            /\ req'.op \in {"register", "login"}
            /\ res' = Ok(req'.op, [token |-> t, user |-> sessions'[t]])
       /\ \A t \in DOMAIN sessions :
            /\ t \in DOMAIN sessions' => sessions'[t] = sessions[t]
            /\ t \notin DOMAIN sessions' => req' = [op |-> "logout", token |-> Some(t)]
       /\ \A t \in 1..tokens : t \notin DOMAIN sessions => t \notin DOMAIN sessions'
       /\ \A t \in TokenInputs :
            req' = [op |-> "me", token |-> t] =>
                IF t # Null /\ t[1] \in DOMAIN sessions
                THEN res' = Ok("me", [user |-> sessions[t[1]]])
                ELSE res'.status = 401
      ]_vars

\* C8 witness: a token still authenticates after a further login and the
\* logout of another token.
C8_Witness ==
    /\ req.op = "me"
    /\ res.status = 200
    /\ tokens >= 2
    /\ Cardinality(DOMAIN sessions) < tokens

\* C9: a login with an unknown email and a login with a wrong password
\* fail with the same response and change no collection and issue no token.
C9_LoginFailure ==
    [][(/\ req'.op = "login"
        /\ res'.status # 0
        /\ req'.email # ""
        /\ req'.password # ""
        /\ \/ User_findByEmail(req'.email) = Null
           \/ User_findByEmail(req'.email)[1].passwordHash.hash[1] # req'.password)
       => /\ res' = [op |-> "login", status |-> 400,
                     error |-> "Invalid email or password", data |-> Null]
          /\ UNCHANGED <<collections, tokens, nextId>>
      ]_vars

\* C9 witness: a login of a registered email with a wrong password has failed.
C9_Witness ==
    /\ req.op = "login"
    /\ res.status = 400
    /\ req.email # ""
    /\ User_findByEmail(req.email) # Null
    /\ User_findByEmail(req.email)[1].passwordHash.hash[1] # req.password

====
